---------------------------- MODULE Spec2Model ----------------------------
(***************************************************************************)
(* A model of the schedule compiler of the `smart` heating controller:     *)
(* src/smart/schedule.py, src/smart/schedule_utils.py and the              *)
(* set-schedule-variables handler of src/app/main.py.                      *)
(*                                                                         *)
(* Representation.  A canonical "HH:MM" string is modelled by its minute   *)
(* of the day, 60*HH + MM, in 0..Day-1; the lexicographic order of the     *)
(* strings (used by sorted() in the source) and the order of strptime      *)
(* values (used by by_time) both coincide with the order of the minutes.   *)
(* A compiled block (start, end, temperature) is the tuple <<s, e, T>>;    *)
(* Python's 0-based block[0], block[1], block[2] are b[1], b[2], b[3].     *)
(* The sentinel temperature "reset" is the number RESET, which no          *)
(* temperature of the pools equals.  A Python call that raises is modelled *)
(* by a result record whose err field names the exception.                 *)
(***************************************************************************)
EXTENDS Integers, Sequences, FiniteSets, TLC

(***************************************************************************)
(* Bounds of the model.                                                    *)
(***************************************************************************)
NSlots == 4          \* times of day are drawn from NSlots whole hours
MaxBlocks == 3       \* most intervals of an input ring
MaxRaw == 3          \* most raw blocks of a zone
RecursionLimit == 3  \* most nested load_zone calls before RecursionError

Day == 24 * 60
TimePool == {60 * i : i \in 0..(NSlots - 1)}
RESET == -1
None == <<>>

VARIABLES
    base_timetable,   \* merge_timetables: first argument
    timetable,        \* merge_timetables: second argument (the override)
    merged,           \* result of merge_timetables(base_timetable, timetable)
    remerged,         \* result of merge_timetables(merged, [])
    mpc,              \* "input" | "merged" | "remerged"
    schedule,         \* schedule_to_timetable: the zone's raw block list
    metadata,         \* schedule_to_timetable: the variable values (**metadata)
    compiled,         \* result of schedule_to_timetable(schedule, **metadata)
    wire,             \* result of [create_block(*block) for block in timetable]
    cpc,              \* "input" | "compiled" | "recompiled" | "parsed" | "timetable" | "wire"
    self_data,             \* ScheduleVariables.data: name -> [value, type]
    prev_data,        \* data before the last add_* call
    last_call,        \* the last call on the store and its arguments
    ever_added,       \* history: per name, the highest tier of any add so far
                      \* and the value of the latest add at that tier
    eq_result,        \* result of the last __eq__ call
    variables_json,        \* variables.json: the persisted globals
    active_schedule_json,  \* active_schedule.json: the active record
    current_schedule,      \* Schedule.current_schedule
    current_variables,     \* Schedule.current_variables
    zone_json,             \* ZoneSchedule.json of each zone
    puts,                  \* PUT requests accepted during the last call
    writes,                \* files written during the last call
    call,                  \* the last call and the exception that ended it
    returned,              \* the value the last call returned
    active_before          \* the active record before the last call

mergeVars == <<base_timetable, timetable, merged, remerged, mpc>>
compileVars == <<schedule, metadata, compiled, wire, cpc>>
storeVars == <<self_data, prev_data, last_call, ever_added, eq_result>>
appVars == <<variables_json, active_schedule_json, current_schedule, current_variables,
             zone_json, puts, writes, call, returned, active_before>>
vars == <<mergeVars, compileVars, storeVars, appVars>>

(***************************************************************************)
(* Results of calls.                                                       *)
(***************************************************************************)
Ok(v) == [err |-> "none", val |-> v]
Raise(e) == [err |-> e, val |-> <<>>]
NoResult == [err |-> "pending", val |-> <<>>]
Returned(r) == r.err = "none"

(***************************************************************************)
(* Each specification below exercises one part of the program; the state   *)
(* of the other parts then stays in its idle value.                        *)
(***************************************************************************)
MergeIdle ==
    /\ base_timetable = <<>> /\ timetable = <<>>
    /\ merged = NoResult /\ remerged = NoResult /\ mpc = "idle"

CompileIdle ==
    /\ schedule = <<>> /\ metadata = <<>> /\ compiled = NoResult /\ wire = NoResult
    /\ cpc = "idle"

NoCall == [op |-> "none", kwargs |-> <<>>]
StoreIdle ==
    /\ self_data = <<>> /\ prev_data = <<>> /\ last_call = NoCall /\ eq_result = "none"
    /\ ever_added = <<>>

AppIdle ==
    /\ variables_json = <<>> /\ active_schedule_json = <<>>
    /\ current_schedule = <<>> /\ current_variables = <<>> /\ zone_json = <<>>
    /\ puts = <<>> /\ writes = {} /\ call = NoCall /\ returned = "none"
    /\ active_before = <<>>

(***************************************************************************)
(* sorted(seq, key=lambda x: x[0]): Python's sort is stable, so an element *)
(* is placed after every element whose key is less than or equal to its    *)
(* own.                                                                    *)
(***************************************************************************)
RECURSIVE InsertByStart(_, _)
InsertByStart(sorted, x) ==
    IF sorted = <<>> THEN <<x>>
    ELSE IF sorted[Len(sorted)][1] <= x[1] THEN Append(sorted, x)
    ELSE Append(InsertByStart(SubSeq(sorted, 1, Len(sorted) - 1), x),
                sorted[Len(sorted)])

RECURSIVE SortedByStartFrom(_, _, _)
SortedByStartFrom(seq, idx, acc) ==
    IF idx > Len(seq) THEN acc
    ELSE SortedByStartFrom(seq, idx + 1, InsertByStart(acc, seq[idx]))

SortedByStart(seq) == SortedByStartFrom(seq, 1, <<>>)

(***************************************************************************)
(* merge_timetables, step 1: tag base blocks 0 and override blocks 1,      *)
(* concatenate (base first) and sort by start.                             *)
(***************************************************************************)
TagBlocks(blocks, tag) == [i \in 1..Len(blocks) |-> Append(blocks[i], tag)]

TaggedSorted(base, override) ==
    SortedByStart(TagBlocks(base, 0) \o TagBlocks(override, 1))

(***************************************************************************)
(* next(filter(lambda block: block[-1] == 0, reversed(timetable))): the    *)
(* last base block of the sorted sequence (still carrying its tag).        *)
(***************************************************************************)
FirstBaseBlock(tt) ==
    LET idxs == {i \in 1..Len(tt) : tt[i][4] = 0}
    IN  tt[CHOOSE i \in idxs : \A j \in idxs : i <= j]

LastBaseBlock(tt) ==
    LET idxs == {i \in 1..Len(tt) : tt[i][4] = 0}
    IN  tt[CHOOSE i \in idxs : \A j \in idxs : j <= i]

HasBaseBlock(tt) == \E i \in 1..Len(tt) : tt[i][4] = 0

(***************************************************************************)
(* merge_timetables, step 2: the walk over the sorted sequence.            *)
(***************************************************************************)
RECURSIVE MergeWalk(_, _, _, _, _)
MergeWalk(tt, idx, last_base_block, start_block, merged_timetable) ==
    IF idx > Len(tt) THEN merged_timetable
    ELSE LET block == tt[idx] IN
        IF block[4] = 1
        THEN IF block[3] = RESET
             THEN MergeWalk(tt, idx + 1, last_base_block, None,
                      Append(merged_timetable,
                             <<block[1], last_base_block[2], last_base_block[3]>>))
             ELSE MergeWalk(tt, idx + 1, last_base_block, block,
                      Append(merged_timetable, SubSeq(block, 1, 3)))
        ELSE MergeWalk(tt, idx + 1, SubSeq(block, 1, 3), start_block,
                      IF start_block = None
                      THEN Append(merged_timetable, SubSeq(block, 1, 3))
                      ELSE merged_timetable)

(***************************************************************************)
(* The state the walk starts in.                                           *)
(***************************************************************************)
InitialStartBlock(tt) == None

MergeBlocks(tt) ==
    MergeWalk(tt, 1, LastBaseBlock(tt), InitialStartBlock(tt), <<>>)

(***************************************************************************)
(* merge_timetables, step 3: "Cut overlapping end times": every end is the *)
(* next entry's start, the last entry's end the first entry's start.       *)
(***************************************************************************)
CutEnds(m) ==
    [idx \in 1..Len(m) |->
        <<m[idx][1],
          IF idx < Len(m) THEN m[idx + 1][1] ELSE m[1][1],
          m[idx][3]>>]

(***************************************************************************)
(* "Remove empty time ranges".                                             *)
(***************************************************************************)
RECURSIVE FilterFrom(_, _, _)
FilterFrom(m, idx, acc) ==
    IF idx > Len(m) THEN acc
    ELSE FilterFrom(m, idx + 1,
             IF m[idx][1] # m[idx][2] THEN Append(acc, m[idx]) ELSE acc)

KeepEmpty(m) == m

RemoveEmpty(m) == FilterFrom(m, 1, <<>>)

(***************************************************************************)
(* "Remove redundant splits": consecutive entries of equal temperature are *)
(* joined, from the first entry on; the caller guarantees m is not empty.  *)
(***************************************************************************)
RECURSIVE CoalesceFrom(_, _, _, _)
CoalesceFrom(m, idx, current, acc) ==
    IF idx > Len(m) THEN Append(acc, current)
    ELSE IF m[idx][3] = current[3]
         THEN CoalesceFrom(m, idx + 1, <<current[1], m[idx][2], current[3]>>, acc)
         ELSE CoalesceFrom(m, idx + 1, m[idx], Append(acc, current))

Coalesce(m) == CoalesceFrom(m, 2, m[1], <<>>)

(***************************************************************************)
(* Schedules.merge_timetables(base_timetable, timetable).                  *)
(***************************************************************************)
merge_timetables(base, override) ==
    LET Join(nonEmpty) ==
            IF nonEmpty = <<>> THEN Raise("IndexError") ELSE Ok(Coalesce(nonEmpty))
        Walk(tt) ==
            IF ~HasBaseBlock(tt) THEN Raise("StopIteration")
            ELSE Join(RemoveEmpty(CutEnds(MergeBlocks(tt))))
    IN  Walk(TaggedSorted(base, override))

(***************************************************************************)
(* Input rings: intervals in ascending order of start, each ending where   *)
(* the next one starts and the last one where the first one starts.  A     *)
(* ring of one interval has start = end and stands for the whole day.      *)
(***************************************************************************)
RECURSIVE SetToSortedSeq(_)
SetToSortedSeq(S) ==
    IF S = {} THEN <<>>
    ELSE LET x == CHOOSE y \in S : \A z \in S : z <= y
         IN  Append(SetToSortedSeq(S \ {x}), x)

RingOf(starts, temps) ==
    [i \in 1..Len(starts) |->
        <<starts[i],
          IF i < Len(starts) THEN starts[i + 1] ELSE starts[1],
          temps[i]>>]

Rings(tempPool) ==
    UNION {{RingOf(SetToSortedSeq(S), temps) : temps \in [1..Cardinality(S) -> tempPool]} :
           S \in {X \in SUBSET TimePool : Cardinality(X) \in 1..MaxBlocks}}

(***************************************************************************)
(* Reading a timetable: the intervals are half-open, [start, end), on the  *)
(* ring; start > end wraps past midnight, start = end is the whole ring.   *)
(***************************************************************************)
InInterval(b, t) ==
    IF b[1] < b[2] THEN b[1] <= t /\ t < b[2]
    ELSE IF b[1] > b[2] THEN t >= b[1] \/ t < b[2]
    ELSE TRUE

TempsAt(tt, t) == {tt[i][3] : i \in {j \in 1..Len(tt) : InInterval(tt[j], t)}}

(***************************************************************************)
(* Properties of merge_timetables.                                         *)
(***************************************************************************)
OverrideIdx == 1..Len(timetable)
AllReset == timetable # <<>> /\ \A i \in OverrideIdx : timetable[i][3] = RESET
Ascending(tt) == \A i \in 1..(Len(tt) - 1) : tt[i][1] < tt[i + 1][1]
Chained(tt) ==
    \A i \in 1..Len(tt) : tt[i][2] = (IF i < Len(tt) THEN tt[i + 1][1] ELSE tt[1][1])
NoStartIsEnd(tt) == \A i \in 1..Len(tt) : tt[i][1] # tt[i][2]
MinimalList(tt) == \A i \in 1..(Len(tt) - 1) : tt[i][3] # tt[i + 1][3]
SameByTime(tt1, tt2) == \A t \in TimePool : TempsAt(tt1, t) = TempsAt(tt2, t)

\* C1: whenever merge_timetables returns, every time of day inside a non-reset
\* interval of the override has, in the merged timetable, exactly the
\* temperature of that override interval.
C1_OverrideAlwaysWins ==
    (mpc = "merged" /\ Returned(merged)) =>
        \A i \in OverrideIdx : timetable[i][3] # RESET =>
            \A t \in TimePool : InInterval(timetable[i], t) =>
                TempsAt(merged.val, t) = {timetable[i][3]}

\* What the code does give (C1): the override wins at every time of a
\* non-reset interval that does not run across the start of the sorted
\* sequence, i.e. one with start < end.
OverrideWinsUnwrapped ==
    (mpc = "merged" /\ Returned(merged)) =>
        \A i \in OverrideIdx : (timetable[i][3] # RESET /\ timetable[i][1] < timetable[i][2]) =>
            \A t \in TimePool : InInterval(timetable[i], t) =>
                TempsAt(merged.val, t) = {timetable[i][3]}

\* C2: for every override with a reset interval, merge_timetables returns a
\* timetable that has, at every time of day inside the reset interval, the
\* temperature the base timetable has at that time.
C2_ResetRevertsToBase ==
    mpc = "merged" =>
        \A i \in OverrideIdx : timetable[i][3] = RESET =>
            /\ Returned(merged)
            /\ \A t \in TimePool : InInterval(timetable[i], t) =>
                   TempsAt(merged.val, t) = TempsAt(base_timetable, t)

\* What the code does give (C2): the same wherever merge_timetables returns.
ResetRevertsWhenReturned ==
    (mpc = "merged" /\ Returned(merged)) =>
        \A i \in OverrideIdx : timetable[i][3] = RESET =>
            \A t \in TimePool : InInterval(timetable[i], t) =>
                TempsAt(merged.val, t) = TempsAt(base_timetable, t)

\* C3 (as stated): every returned timetable is in ascending order of start,
\* has no interval with start = end, and is chained into a ring.
C3_ReturnedIsRingNoStartIsEnd ==
    /\ Returned(merged) =>
         Ascending(merged.val) /\ NoStartIsEnd(merged.val) /\ Chained(merged.val)
    /\ Returned(remerged) =>
         Ascending(remerged.val) /\ NoStartIsEnd(remerged.val) /\ Chained(remerged.val)

ReturnedRing(tt) ==
    /\ tt # <<>>
    /\ Ascending(tt)
    /\ Chained(tt)
    /\ Len(tt) >= 2 => NoStartIsEnd(tt)

\* C3 (amended): every returned timetable is non-empty, in ascending order
\* of start and chained into a ring, and has no interval with start = end
\* unless it consists of a single interval (which then has start = end and
\* covers the whole day).
C3_ReturnedIsRing ==
    /\ Returned(merged) => ReturnedRing(merged.val)
    /\ Returned(remerged) => ReturnedRing(remerged.val)

C3_Witness ==
    /\ mpc = "merged" /\ Returned(merged)
    /\ Len(merged.val) = 1
    /\ Len(base_timetable) >= 2 /\ MinimalList(base_timetable)
    /\ Len(timetable) >= 2

\* C9: when merge_timetables returned M, merge_timetables(M, []) returns
\* exactly M.
C9_ReMergeIdempotent == mpc = "remerged" => remerged = merged

\* What the code does give (C9): the re-merge equals M whenever it returns.
ReMergeSameWhenReturned ==
    (mpc = "remerged" /\ Returned(remerged)) => remerged = merged

\* C27: merge_timetables is total on rings: for every non-empty base ring
\* and every override ring (an empty override, a single interval with
\* start = end as base or override, and override starts that coincide with
\* base starts included) it returns a non-empty timetable and raises no
\* error.
C27_TotalOnRings ==
    mpc = "merged" => (Returned(merged) /\ merged.val # <<>>)

\* What the code does give (C27): the merge returns a non-empty timetable or
\* ends in IndexError, and it ends in IndexError only when one temperature
\* holds over the whole day after the override.
C27_NonEmptyOrIndexError ==
    mpc = "merged" =>
        \/ Returned(merged) /\ merged.val # <<>>
        \/ /\ merged.err = "IndexError"
           /\ \E temp \in {1, 2} : \A t \in TimePool :
                  LET over == TempsAt(timetable, t) \ {RESET} IN
                  (IF over # {} THEN over ELSE TempsAt(base_timetable, t)) = {temp}

\* A base of one interval that covers the whole day with an empty override:
\* the merge ends in IndexError.
C27_WholeDayBaseIndexError ==
    /\ mpc = "merged" /\ Len(base_timetable) = 1 /\ timetable = <<>>
    /\ merged.err = "IndexError"

MinimalAround(tt) == Len(tt) >= 2 => tt[Len(tt)][3] # tt[1][3]

\* C23: the timetable merge_timetables returns is minimally segmented: no
\* two adjacent intervals carry the same temperature, the last and the first
\* interval of the ring being adjacent too.
C23_MinimallySegmented ==
    (mpc = "merged" /\ Returned(merged)) =>
        (MinimalList(merged.val) /\ MinimalAround(merged.val))

\* What the code does give (C23): no two intervals that follow each other in
\* the returned list carry the same temperature.
C23_MinimalList == (mpc = "merged" /\ Returned(merged)) => MinimalList(merged.val)

\* A returned timetable whose last and first interval carry the same
\* temperature, for a base with that temperature around the start and an
\* empty override.
C23_LastAsFirst ==
    /\ mpc = "merged" /\ Returned(merged)
    /\ timetable = <<>>
    /\ Len(merged.val) = 3
    /\ merged.val[3][3] = merged.val[1][3]


(***************************************************************************)
(* Text.  A Python string is the sequence of its characters, so that the   *)
(* regular expressions, strptime and strftime of schedule_utils.py are     *)
(* modelled by what they do to the characters.                             *)
(***************************************************************************)
DigitChars == <<"0", "1", "2", "3", "4", "5", "6", "7", "8", "9">>
IsDigit(c) == \E i \in 1..10 : DigitChars[i] = c
DigitVal(c) == (CHOOSE i \in 1..10 : DigitChars[i] = c) - 1
WordChars ==
    {DigitChars[i] : i \in 1..10} \cup {"_"} \cup
    {"a", "b", "c", "d", "e", "f", "g", "h", "i", "j", "k", "l", "m",
     "n", "o", "p", "q", "r", "s", "t", "u", "v", "w", "x", "y", "z",
     "A", "B", "C", "D", "E", "F", "G", "H", "I", "J", "K", "L", "M",
     "N", "O", "P", "Q", "R", "S", "T", "U", "V", "W", "X", "Y", "Z"}

\* _TIME_FMT = [0-9]{2}:[0-9]{2}, matched at position p of text s.
TimeFmtAt(s, p) ==
    /\ p + 4 <= Len(s)
    /\ IsDigit(s[p]) /\ IsDigit(s[p + 1])
    /\ s[p + 2] = ":"
    /\ IsDigit(s[p + 3]) /\ IsDigit(s[p + 4])

\* re.fullmatch(TIME_FMT, time)
FullMatchTimeFmt(s) == Len(s) = 5 /\ TimeFmtAt(s, 1)

\* re.match in place of re.fullmatch: text after the closing brace is ignored.
FullMatchDynamicFmtPrefix(s) ==
    LET closing == {k \in 1..Len(s) : s[k] = "}"}
        Match(t) ==
            LET n == Len(t)
                plain == /\ n >= 3 /\ t[1] = "{" /\ t[n] = "}"
                         /\ \A i \in 2..(n - 1) : t[i] \in WordChars
                offs  == /\ n >= 10 /\ t[1] = "{" /\ t[n] = "}"
                         /\ \A i \in 2..(n - 8) : t[i] \in WordChars
                         /\ t[n - 7] = "|"
                         /\ t[n - 6] \in {"+", "-"}
                         /\ TimeFmtAt(t, n - 5)
            IN  IF plain
                THEN [matched |-> TRUE, variable |-> SubSeq(t, 2, n - 1), offset |-> None,
                      sign |-> None, duration |-> None]
                ELSE IF offs
                THEN [matched |-> TRUE, variable |-> SubSeq(t, 2, n - 8),
                      offset |-> SubSeq(t, n - 7, n - 1),
                      sign |-> t[n - 6], duration |-> SubSeq(t, n - 5, n - 1)]
                ELSE [matched |-> FALSE, variable |-> None, offset |-> None,
                      sign |-> None, duration |-> None]
    IN  IF closing = {} THEN Match(s)
        ELSE Match(SubSeq(s, 1, CHOOSE k \in closing : \A j \in closing : k <= j))

\* re.fullmatch(DYNAMIC_TIME_FMT, time): {name} or {name|<sign>HH:MM}, the
\* name one or more of [A-Za-z0-9_].  The result holds the groups m[1]
\* (variable), m[2] (offset clause, None when absent), m[3] (sign), m[4].
FullMatchDynamicFmt(s) ==
    LET n == Len(s)
        plain == /\ n >= 3 /\ s[1] = "{" /\ s[n] = "}"
                 /\ \A i \in 2..(n - 1) : s[i] \in WordChars
        offs  == /\ n >= 10 /\ s[1] = "{" /\ s[n] = "}"
                 /\ \A i \in 2..(n - 8) : s[i] \in WordChars
                 /\ s[n - 7] = "|"
                 /\ s[n - 6] \in {"+", "-"}
                 /\ TimeFmtAt(s, n - 5)
    IN  IF plain
        THEN [matched |-> TRUE, variable |-> SubSeq(s, 2, n - 1), offset |-> None,
              sign |-> None, duration |-> None]
        ELSE IF offs
        THEN [matched |-> TRUE, variable |-> SubSeq(s, 2, n - 8),
              offset |-> SubSeq(s, n - 7, n - 1),
              sign |-> s[n - 6], duration |-> SubSeq(s, n - 5, n - 1)]
        ELSE [matched |-> FALSE, variable |-> None, offset |-> None,
              sign |-> None, duration |-> None]

\* datetime.strptime(text, "%H:%M"): one or two digits of hour (0..23), a
\* colon, one or two digits of minute (0..59).  The value is the minute of
\* the day (the date is always 1900-01-01).
Strptime(s) ==
    LET n == Len(s)
        colons == {i \in 1..n : s[i] = ":"}
    IN  IF Cardinality(colons) # 1 THEN Raise("ValueError: strptime")
        ELSE LET c == CHOOSE i \in colons : TRUE
                 hl == c - 1
                 ml == n - c
             IN  IF ~(hl \in 1..2 /\ ml \in 1..2
                      /\ \A i \in (1..n) \ {c} : IsDigit(s[i]))
                 THEN Raise("ValueError: strptime")
                 ELSE LET hour == IF hl = 1 THEN DigitVal(s[1])
                                  ELSE 10 * DigitVal(s[1]) + DigitVal(s[2])
                          minute == IF ml = 1 THEN DigitVal(s[c + 1])
                                    ELSE 10 * DigitVal(s[c + 1]) + DigitVal(s[c + 2])
                      IN  IF hour <= 23 /\ minute <= 59
                          THEN Ok(60 * hour + minute)
                          ELSE Raise("ValueError: strptime")

\* dt.strftime("%H:%M") of a minute of the day.
Strftime(m) ==
    <<DigitChars[((m \div 60) \div 10) + 1], DigitChars[((m \div 60) % 10) + 1], ":",
      DigitChars[((m % 60) \div 10) + 1], DigitChars[((m % 60) % 10) + 1]>>

MIDNIGHT == <<"0", "0", ":", "0", "0">>

\* _parse_time(time)
parse_time(time) ==
    IF FullMatchTimeFmt(time) THEN Ok(time)
    ELSE Raise("ValueError: not a valid static format")

\* _parse_dynamic_time with the sign of the offset ignored.
parse_dynamic_time_unsigned(time, kwargs) ==
    LET Shift(dt, sign, dt_offset) ==
            IF ~Returned(dt_offset) THEN dt_offset
            ELSE Ok(Strftime((dt.val + dt_offset.val) % Day))
        Render(m, dt) ==
            IF ~Returned(dt) THEN dt
            ELSE IF m.offset = None THEN Ok(Strftime(dt.val))
            ELSE Shift(dt, m.sign, Strptime(m.duration))
        Lookup(m) ==
            IF ~m.matched THEN Raise("ValueError: not a valid dynamic format")
            ELSE IF m.variable \notin DOMAIN kwargs THEN Raise("KeyError")
            ELSE Render(m, Strptime(kwargs[m.variable]))
    IN  Lookup(FullMatchDynamicFmt(time))

\* _parse_dynamic_time(time, **kwargs)
parse_dynamic_time(time, kwargs) ==
    LET Shift(dt, sign, dt_offset) ==
            IF ~Returned(dt_offset) THEN dt_offset
            ELSE Ok(Strftime((dt.val + (IF sign = "-" THEN 0 - dt_offset.val
                                        ELSE dt_offset.val)) % Day))
        Render(m, dt) ==
            IF ~Returned(dt) THEN dt
            ELSE IF m.offset = None THEN Ok(Strftime(dt.val))
            ELSE Shift(dt, m.sign, Strptime(m.duration))
        Lookup(m) ==
            IF ~m.matched THEN Raise("ValueError: not a valid dynamic format")
            ELSE IF m.variable \notin DOMAIN kwargs THEN Raise("KeyError")
            ELSE Render(m, Strptime(kwargs[m.variable]))
    IN  Lookup(FullMatchDynamicFmt(time))

\* The body of the loop of parse_dynamic_times for one block.
ParseBlockTime(time, kwargs) ==
    IF time # <<>> /\ time[1] = "{" THEN parse_dynamic_time(time, kwargs)
    ELSE parse_time(time)

\* parse_dynamic_times(schedule, **kwargs): the blocks are rewritten in
\* order and the first failure ends the call.
RECURSIVE ParseFrom(_, _, _)
ParseFrom(sched, idx, kwargs) ==
    LET Replace(time) ==
            IF ~Returned(time) THEN time
            ELSE ParseFrom([sched EXCEPT ![idx].time = time.val], idx + 1, kwargs)
    IN  IF idx > Len(sched) THEN Ok(sched)
        ELSE Replace(ParseBlockTime(sched[idx].time, kwargs))

parse_dynamic_times(sched, kwargs) == ParseFrom(sched, 1, kwargs)

\* by_time(block)
by_time(block) == Strptime(block.time)

\* schedule.sort(key=by_time): the keys of all blocks are computed first
\* (a failing key ends the call), then the blocks are sorted stably.
RECURSIVE InsertByTime(_, _)
InsertByTime(sorted, x) ==
    IF sorted = <<>> THEN <<x>>
    ELSE IF by_time(sorted[Len(sorted)]).val <= by_time(x).val THEN Append(sorted, x)
    ELSE Append(InsertByTime(SubSeq(sorted, 1, Len(sorted) - 1), x),
                sorted[Len(sorted)])

RECURSIVE SortByTimeFrom(_, _, _)
SortByTimeFrom(seq, idx, acc) ==
    IF idx > Len(seq) THEN acc
    ELSE SortByTimeFrom(seq, idx + 1, InsertByTime(acc, seq[idx]))

SortByTime(sched) ==
    IF \E i \in 1..Len(sched) : ~Returned(by_time(sched[i]))
    THEN Raise("ValueError: strptime")
    ELSE Ok(SortByTimeFrom(sched, 1, <<>>))

\* The end of block idx (1-based) in the loop of schedule_to_timetable: the
\* time of the next block, the time of the first block for the last one.
BlockEndMidnight(sched, idx) ==
    IF idx + 1 > Len(sched) THEN MIDNIGHT ELSE sched[idx + 1].time

BlockEnd(sched, idx) ==
    IF idx + 1 > Len(sched) THEN sched[1].time ELSE sched[idx + 1].time

\* The canonical "HH:MM" text of a parsed and sorted block as a minute of
\* the day.
Minutes(text) == Strptime(text).val

\* The loop of schedule_to_timetable without the split at midnight.
RECURSIVE CompileFromNoSplit(_, _, _)
CompileFromNoSplit(sched, idx, data) ==
    IF idx > Len(sched) THEN data
    ELSE CompileFromNoSplit(sched, idx + 1,
             Append(data, <<Minutes(sched[idx].time), Minutes(BlockEnd(sched, idx)),
                            sched[idx].temperature>>))

\* The loop of schedule_to_timetable over the sorted blocks, with the split
\* of a block that includes midnight.
RECURSIVE CompileFrom(_, _, _)
CompileFrom(sched, idx, data) ==
    LET Emit(start, end, temperature) ==
            IF /\ ~(start = MIDNIGHT \/ end = MIDNIGHT)
               /\ Strptime(end).val < Strptime(start).val
            THEN CompileFrom(sched, idx + 1,
                     Append(<<<<Minutes(MIDNIGHT), Minutes(end), temperature>>>> \o data,
                            <<Minutes(start), Minutes(MIDNIGHT), temperature>>))
            ELSE CompileFrom(sched, idx + 1,
                     Append(data, <<Minutes(start), Minutes(end), temperature>>))
    IN  IF idx > Len(sched) THEN data
        ELSE Emit(sched[idx].time, BlockEnd(sched, idx), sched[idx].temperature)

\* Schedules.schedule_to_timetable(schedule, **metadata)
schedule_to_timetable(sched, kwargs) ==
    LET Build(sorted) ==
            IF ~Returned(sorted) THEN sorted
            ELSE Ok(SortedByStart(CompileFrom(sorted.val, 1, <<>>)))
        Sort(parsed) ==
            IF ~Returned(parsed) THEN parsed ELSE Build(SortByTime(parsed.val))
    IN  Sort(parse_dynamic_times(sched, kwargs))


\* The list parse_dynamic_times leaves behind, which it rewrites in place:
\* the blocks before the first failure have their new time.
RECURSIVE ParseInPlaceFrom(_, _, _)
ParseInPlaceFrom(sched, idx, kwargs) ==
    LET Rewrite(time) ==
            IF ~Returned(time) THEN sched
            ELSE ParseInPlaceFrom([sched EXCEPT ![idx].time = time.val], idx + 1, kwargs)
    IN  IF idx > Len(sched) THEN sched
        ELSE Rewrite(ParseBlockTime(sched[idx].time, kwargs))

\* The lists of schedule_to_timetable after parse_dynamic_times(schedule)
\* and schedule.sort(key=by_time), both of which write to the list the name
\* schedule is bound to: the caller's list (argument) and the list the name
\* is bound to (bound).  rebound tells whether the name was rebound to a
\* deep copy.  A sort whose key fails leaves the list as it is.
ListsAfter(sched, kwargs, rebound) ==
    LET SortInPlace(parsed) ==
            IF Returned(parse_dynamic_times(sched, kwargs)) /\ Returned(SortByTime(parsed))
            THEN SortByTime(parsed).val ELSE parsed
        Cells(written) ==
            [argument |-> IF rebound THEN sched ELSE written, bound |-> written]
    IN  Cells(SortInPlace(ParseInPlaceFrom(sched, 1, kwargs)))

\* The caller's list after a schedule_to_timetable that works on the list it
\* is given.
schedule_after_in_place(sched, kwargs) == ListsAfter(sched, kwargs, FALSE).argument

\* The caller's list after schedule_to_timetable(schedule, **metadata):
\* schedule = copy.deepcopy(schedule) rebinds the name first.
schedule_after(sched, kwargs) == ListsAfter(sched, kwargs, TRUE).argument

(***************************************************************************)
(* Inputs of the compilation: raw blocks whose time tokens come from a     *)
(* pool of literal and dynamic tokens, and values of the variable v1.      *)
(***************************************************************************)
V1 == <<"v", "1">>
TokenPool ==
    {<<"0", "0", ":", "0", "0">>,
     <<"0", "7", ":", "0", "0">>,
     <<"2", "2", ":", "3", "0">>,
     <<"7", ":", "0", "0">>,
     <<"{", "v", "1", "}">>,
     <<"{", "v", "1", "|", "+", "0", "1", ":", "0", "0", "}">>,
     <<"{", "v", "1", "|", "-", "0", "8", ":", "0", "0", "}">>}
ValuePool == {<<"0", "7", ":", "0", "0">>, <<"2", "3", ":", "3", "0">>}
RawSchedules ==
    UNION {[1..n -> [time : TokenPool, temperature : {0, 210}]] : n \in 1..MaxRaw}

\* The resolved times of a raw block list, when every token resolves.
Resolvable(sched, kwargs) ==
    LET parsed == parse_dynamic_times(sched, kwargs) IN
    Returned(parsed) /\ Returned(SortByTime(parsed.val))
ResolvedTimes(sched, kwargs) ==
    LET parsed == parse_dynamic_times(sched, kwargs).val IN
    [i \in 1..Len(parsed) |-> Minutes(parsed[i].time)]
DistinctTimes(sched, kwargs) ==
    /\ Resolvable(sched, kwargs)
    /\ LET ts == ResolvedTimes(sched, kwargs) IN
       \A i, j \in 1..Len(ts) : i # j => ts[i] # ts[j]

\* The duration of an interval taken with wrap: an interval whose end is
\* not after its start runs through midnight, and start = end is one whole
\* turn of the ring.
Duration(b) == IF b[2] > b[1] THEN b[2] - b[1] ELSE b[2] - b[1] + Day
RECURSIVE SumDurations(_, _)
SumDurations(tt, idx) ==
    IF idx > Len(tt) THEN 0 ELSE Duration(tt[idx]) + SumDurations(tt, idx + 1)

\* C4: for every raw block list (one block or more) whose resolved times
\* are pairwise distinct, schedule_to_timetable returns intervals that tile
\* the 24-hour ring exactly once: each interval ends where the next one
\* starts (cyclically), no interval is empty (of two or more intervals none
\* has start = end; a single interval is the whole ring), and the durations
\* taken with wrap sum to 24 hours.
C4_CompiledTilesRing ==
    (cpc = "compiled" /\ DistinctTimes(schedule, metadata)) =>
        /\ Returned(compiled)
        /\ compiled.val # <<>>
        /\ Chained(compiled.val)
        /\ Len(compiled.val) >= 2 => NoStartIsEnd(compiled.val)
        /\ SumDurations(compiled.val, 1) = Day

C4_Witness ==
    /\ cpc = "compiled" /\ DistinctTimes(schedule, metadata)
    /\ Len(schedule) = 3
    /\ Returned(compiled) /\ Len(compiled.val) = 4
    /\ \E i \in 1..3 : schedule[i].time[1] = "{"

C4_WitnessSingle ==
    /\ cpc = "compiled" /\ Len(schedule) = 1
    /\ Returned(compiled) /\ compiled.val[1][1] # 0

(***************************************************************************)
(* Specification of the compilation of one zone: the caller's block list   *)
(* is compiled, and then compiled once more with another value of the      *)
(* variable.  schedule is the caller's list, as the calls leave it.        *)
(***************************************************************************)
CompileInit ==
    /\ MergeIdle /\ StoreIdle /\ AppIdle
    /\ schedule \in RawSchedules
    /\ metadata \in [{V1} -> ValuePool]
    /\ compiled = NoResult
    /\ wire = NoResult
    /\ cpc = "input"

Compile ==
    /\ cpc = "input"
    /\ compiled' = schedule_to_timetable(schedule, metadata)
    /\ schedule' = schedule_after(schedule, metadata)
    /\ cpc' = "compiled"
    /\ UNCHANGED <<metadata, wire, mergeVars, storeVars, appVars>>

Recompile ==
    /\ cpc = "compiled"
    /\ metadata' \in [{V1} -> ValuePool] \ {metadata}
    /\ compiled' = schedule_to_timetable(schedule, metadata')
    /\ schedule' = schedule_after(schedule, metadata')
    /\ cpc' = "recompiled"
    /\ UNCHANGED <<wire, mergeVars, storeVars, appVars>>

CompileNext == Compile \/ Recompile

SpecCompile == CompileInit /\ [][CompileNext]_vars

(***************************************************************************)
(* Inputs of the parsing of one time token: static tokens, dynamic tokens  *)
(* with and without an offset clause, malformed tokens, and environments   *)
(* that define var1 or nothing.                                            *)
(***************************************************************************)
Var1 == <<"v", "a", "r", "1">>
Var2 == <<"v", "a", "r", "2">>
Braced(inner) == <<"{">> \o inner \o <<"}">>
OffsetToken(name, sign, duration) == Braced(name \o <<"|", sign>> \o duration)
ClockPool ==
    {<<"0", "0", ":", "0", "0">>, <<"0", "0", ":", "3", "0">>,
     <<"0", "1", ":", "0", "0">>, <<"0", "7", ":", "0", "0">>,
     <<"2", "3", ":", "3", "0">>, <<"2", "3", ":", "5", "9">>}
TimeTokens ==
    ClockPool \cup
    {<<"a", "a", "a">>, <<"7", ":", "0", "0">>, <<"0", "7", "0", "0">>,
     <<"2", "4", ":", "0", "0">>, <<"1", "2", ":", "6", "0">>,
     <<"0", "7", ":", "0", "0", "}">>} \cup
    {Braced(Var1), Braced(Var2)} \cup
    {OffsetToken(Var1, sign, duration) : sign \in {"+", "-"}, duration \in ClockPool} \cup
    {OffsetToken(Var2, "+", <<"0", "1", ":", "0", "0">>),
     OffsetToken(Var1, "+", <<"2", "5", ":", "0", "0">>)} \cup
    {Braced(Var1 \o <<"|", "0", "1", ":", "0", "0">>),
     Braced(Var1 \o <<"|", "+", "1", ":", "0", "0">>),
     Braced(Var1 \o <<"|", "-", "1", ":", "0", "0">>),
     Braced(Var1) \o <<"x">>,
     Braced(<<>>),
     <<"{", "v", "a", "r", "1">>,
     Braced(<<"v", "a", "r", "-", "1">>)}
Environments ==
    {<<>>} \cup
    {Var1 :> v : v \in ClockPool \cup {<<"7", ":", "0", "0">>, <<"2", "4", ":", "0", "0">>}}

(***************************************************************************)
(* Specification of parse_dynamic_times on a list of one block.            *)
(***************************************************************************)
ParseInit ==
    /\ MergeIdle /\ StoreIdle /\ AppIdle
    /\ schedule \in {<<[time |-> token, temperature |-> 210]>> : token \in TimeTokens}
    /\ metadata \in Environments
    /\ compiled = NoResult
    /\ wire = NoResult
    /\ cpc = "input"

ParseTimes ==
    /\ cpc = "input"
    /\ compiled' = parse_dynamic_times(schedule, metadata)
    /\ cpc' = "parsed"
    /\ UNCHANGED <<schedule, metadata, wire, mergeVars, storeVars, appVars>>

ParseNext == ParseTimes

SpecParse == ParseInit /\ [][ParseNext]_vars

(***************************************************************************)
(* Reading a text as a time of day: two digits of hour (00..23), a colon   *)
(* and two digits of minute (00..59).                                      *)
(***************************************************************************)
Digits == {"0", "1", "2", "3", "4", "5", "6", "7", "8", "9"}
ClockHour(t) == 10 * DigitVal(t[1]) + DigitVal(t[2])
ClockMinute(t) == 10 * DigitVal(t[4]) + DigitVal(t[5])
IsClock(t) ==
    /\ Len(t) = 5 /\ t[3] = ":"
    /\ \A i \in {1, 2, 4, 5} : t[i] \in Digits
    /\ ClockHour(t) <= 23 /\ ClockMinute(t) <= 59
ClockMinutes(t) == 60 * ClockHour(t) + ClockMinute(t)

Token == schedule[1].time
Parsed == cpc = "parsed"
ParsedTime == compiled.val[1].time
HasOffset(name) ==
    /\ Len(Token) = Len(name) + 9
    /\ SubSeq(Token, 1, Len(name) + 2) = <<"{">> \o name \o <<"|">>
    /\ Token[Len(name) + 3] \in {"+", "-"}
    /\ Token[Len(Token)] = "}"
OffsetSign(name) == Token[Len(name) + 3]
OffsetText(name) == SubSeq(Token, Len(name) + 4, Len(name) + 8)
SignedOffset(name) ==
    IF OffsetSign(name) = "-" THEN 0 - ClockMinutes(OffsetText(name))
    ELSE ClockMinutes(OffsetText(name))

\* C11: for every variable whose value v is an HH:MM time and every offset
\* +HH:MM or -HH:MM, parsing {name|<sign>HH:MM} returns the canonical HH:MM
\* text of (v + signed offset) modulo 24 hours, and parsing {name} returns v.
C11_OffsetModuloDay ==
    Parsed =>
        \A name \in DOMAIN metadata :
            IsClock(metadata[name]) =>
                /\ Token = Braced(name) =>
                        Returned(compiled) /\ ParsedTime = metadata[name]
                /\ (HasOffset(name) /\ IsClock(OffsetText(name))) =>
                        /\ Returned(compiled)
                        /\ IsClock(ParsedTime)
                        /\ ClockMinutes(ParsedTime) =
                              (ClockMinutes(metadata[name]) + SignedOffset(name)) % Day

\* 23:30 + 01:00 = 00:30
C11_Witness ==
    /\ Parsed /\ Var1 \in DOMAIN metadata
    /\ metadata[Var1] = <<"2", "3", ":", "3", "0">>
    /\ Token = OffsetToken(Var1, "+", <<"0", "1", ":", "0", "0">>)
    /\ ParsedTime = <<"0", "0", ":", "3", "0">>

\* 00:30 - 01:00 = 23:30
C11_WitnessBackwards ==
    /\ Parsed /\ Var1 \in DOMAIN metadata
    /\ metadata[Var1] = <<"0", "0", ":", "3", "0">>
    /\ Token = OffsetToken(Var1, "-", <<"0", "1", ":", "0", "0">>)
    /\ ParsedTime = <<"2", "3", ":", "3", "0">>

\* C12: a token that does not start with "{" is left unchanged when it is a
\* literal HH:MM with hour 00-23 and minute 00-59, and every other such token
\* fails with the static-format error.
C12_StaticTokenChecked ==
    (Parsed /\ Token[1] # "{") =>
        IF IsClock(Token)
        THEN Returned(compiled) /\ ParsedTime = Token
        ELSE compiled.err = "ValueError: not a valid static format"

\* The part of C12 the code keeps: valid literals are unchanged, and a token
\* that is not two digits, a colon and two digits fails with the
\* static-format error.
C12_StaticShapeChecked ==
    (Parsed /\ Token[1] # "{") =>
        /\ IsClock(Token) => (Returned(compiled) /\ ParsedTime = Token)
        /\ ~(Len(Token) = 5 /\ Token[3] = ":" /\ \A i \in {1, 2, 4, 5} : Token[i] \in Digits)
              => compiled.err = "ValueError: not a valid static format"

\* "24:00" is returned as a time.
C12_OutOfRangeAccepted ==
    /\ Parsed /\ Token = <<"2", "4", ":", "0", "0">>
    /\ Returned(compiled) /\ ParsedTime = Token

\* The grammar of dynamic tokens: {name} or {name|<sign>dd:dd}, the name one
\* or more letters, digits or underscores.
IsName(s) == s # <<>> /\ \A i \in 1..Len(s) : s[i] \in WordChars
IsPlainToken(t) ==
    /\ Len(t) >= 3 /\ t[1] = "{" /\ t[Len(t)] = "}"
    /\ IsName(SubSeq(t, 2, Len(t) - 1))
IsOffsetToken(t) ==
    /\ Len(t) >= 10 /\ t[1] = "{" /\ t[Len(t)] = "}"
    /\ IsName(SubSeq(t, 2, Len(t) - 8))
    /\ t[Len(t) - 7] = "|" /\ t[Len(t) - 6] \in {"+", "-"}
    /\ t[Len(t) - 3] = ":"
    /\ \A i \in {Len(t) - 5, Len(t) - 4, Len(t) - 2, Len(t) - 1} : t[i] \in Digits
IsDynamicToken(t) == IsPlainToken(t) \/ IsOffsetToken(t)
TokenName(t) ==
    IF IsPlainToken(t) THEN SubSeq(t, 2, Len(t) - 1) ELSE SubSeq(t, 2, Len(t) - 8)

\* C13: a token that starts with "{" is accepted only if it fully matches
\* {name}, {name|+HH:MM} or {name|-HH:MM}; every other such token fails with
\* the dynamic-format error, and a well-formed token whose name is not in the
\* environment fails with KeyError (no default time takes its place).
C13_DynamicTokenChecked ==
    (Parsed /\ Token[1] = "{") =>
        /\ Returned(compiled) => IsDynamicToken(Token)
        /\ ~IsDynamicToken(Token) =>
              compiled.err = "ValueError: not a valid dynamic format"
        /\ (IsDynamicToken(Token) /\ TokenName(Token) \notin DOMAIN metadata) =>
              compiled.err = "KeyError"

\* {var1}x with var1 defined: trailing text is refused.
C13_Witness ==
    /\ Parsed /\ Token = Braced(Var1) \o <<"x">> /\ Var1 \in DOMAIN metadata
    /\ compiled.err = "ValueError: not a valid dynamic format"

\* {var2|+01:00} with only var1 defined.
C13_WitnessUnknownName ==
    /\ Parsed /\ Token = OffsetToken(Var2, "+", <<"0", "1", ":", "0", "0">>)
    /\ Var1 \in DOMAIN metadata
    /\ compiled.err = "KeyError"

\* The blocks schedule_to_timetable walks over: the resolved blocks in the
\* order of their times; block i runs from its own time to the time of the
\* next block, the last block to the time of the first.
CompiledOk == cpc = "compiled" /\ Resolvable(schedule, metadata)
SortedBlocks == SortByTime(parse_dynamic_times(schedule, metadata).val).val
ClockStart(i) == ClockMinutes(SortedBlocks[i].time)
ClockEnd(i) ==
    ClockMinutes(SortedBlocks[IF i < Len(SortedBlocks) THEN i + 1 ELSE 1].time)
IncludesMidnight(i) ==
    ClockStart(i) # 0 /\ ClockEnd(i) # 0 /\ ClockEnd(i) < ClockStart(i)

\* C14: a block whose start and end both differ from 00:00 and whose end is
\* earlier than its start is emitted as (00:00, end, T) at the head of the
\* list and (start, 00:00, T) at its tail; every other block is emitted as
\* one block with its start and end unchanged.
C14_MidnightSplit ==
    CompiledOk =>
        /\ Returned(compiled)
        /\ \A i \in 1..Len(SortedBlocks) :
              IF IncludesMidnight(i)
              THEN /\ compiled.val[1] = <<0, ClockEnd(i), SortedBlocks[i].temperature>>
                   /\ compiled.val[Len(compiled.val)] =
                          <<ClockStart(i), 0, SortedBlocks[i].temperature>>
              ELSE \E j \in 1..Len(compiled.val) :
                      compiled.val[j] =
                          <<ClockStart(i), ClockEnd(i), SortedBlocks[i].temperature>>
        /\ Len(compiled.val) =
              Len(SortedBlocks)
              + Cardinality({i \in 1..Len(SortedBlocks) : IncludesMidnight(i)})

\* 07:00 (0), 22:30 (21): the block from 22:30 to 07:00 is split.
C14_Witness ==
    /\ CompiledOk /\ Len(schedule) = 2
    /\ compiled.val = <<<<0, 420, 210>>, <<420, 1350, 0>>, <<1350, 0, 210>>>>

\* A block list with a block at 00:00 is not split.
C14_WitnessNoSplit ==
    /\ CompiledOk /\ Len(schedule) = 2
    /\ compiled.val = <<<<0, 420, 210>>, <<420, 0, 0>>>>


\* C25: compiling a zone never mutates its inputs: schedule_to_timetable
\* leaves the caller's raw block list and every block in it (unresolved time
\* tokens included) unchanged, whether it returns or fails part-way on a
\* malformed token, in the first compilation and in the one that follows with
\* another value of the variable.
C25_InputUnchanged == [][schedule' = schedule]_vars

\* The second compilation has returned for a list with a dynamic token,
\* which is still in the list; the first one has resolved it for another
\* value of the variable.
C25_Witness ==
    /\ cpc = "recompiled" /\ Returned(compiled)
    /\ Len(schedule) = 3
    /\ schedule[1].time = <<"{", "v", "1", "}">>
    /\ schedule[2].time = <<"0", "0", ":", "0", "0">>

\* A compilation that failed part-way: the first token is dynamic and
\* resolves, the second one is malformed.
C25_WitnessFailed ==
    /\ cpc = "compiled" /\ ~Returned(compiled)
    /\ Len(schedule) >= 2
    /\ schedule[1].time = <<"{", "v", "1", "}">>
    /\ schedule[2].time = <<"7", ":", "0", "0">>

(***************************************************************************)
(* ScheduleVariables: a dict from variable names to {"value", "type"}.     *)
(* A dict is a function whose DOMAIN is the set of its keys; the empty     *)
(* dict is the function with the empty domain, <<>>.                       *)
(***************************************************************************)
DEFAULT == "default"
GLOBAL == "global"
KWARG == "kwarg"
EmptyDict == <<>>

\* A dict written as a function expression, as the table of its items.
Dict(f) == f @@ EmptyDict
Entry(v, t) == [value |-> v, type |-> t]

\* ScheduleVariables._existing_type(key)
existing_type(d, key) == IF key \in DOMAIN d THEN d[key].type ELSE "None"

\* A variant of add_default that keeps only an Override entry.
add_default_over_global(d, kwargs) ==
    Dict([k \in DOMAIN d \cup DOMAIN kwargs |->
            IF k \in DOMAIN kwargs /\ existing_type(d, k) # KWARG
            THEN Entry(kwargs[k], DEFAULT) ELSE d[k]])

\* ScheduleVariables.add_default(**kwargs)
add_default(d, kwargs) ==
    Dict([k \in DOMAIN d \cup DOMAIN kwargs |->
            IF k \in DOMAIN kwargs /\ existing_type(d, k) \notin {GLOBAL, KWARG}
            THEN Entry(kwargs[k], DEFAULT) ELSE d[k]])

\* A variant of add_global that does not look at the existing tier.
add_global_unconditional(d, kwargs) ==
    Dict([k \in DOMAIN d \cup DOMAIN kwargs |->
            IF k \in DOMAIN kwargs THEN Entry(kwargs[k], GLOBAL) ELSE d[k]])

\* ScheduleVariables.add_global(**kwargs)
add_global(d, kwargs) ==
    Dict([k \in DOMAIN d \cup DOMAIN kwargs |->
            IF k \in DOMAIN kwargs /\ existing_type(d, k) # KWARG
            THEN Entry(kwargs[k], GLOBAL) ELSE d[k]])

\* ScheduleVariables.add_kwarg(**kwargs)
add_kwarg(d, kwargs) ==
    Dict([k \in DOMAIN d \cup DOMAIN kwargs |->
            IF k \in DOMAIN kwargs THEN Entry(kwargs[k], KWARG) ELSE d[k]])

\* {k: v["value"] for k, v in self.data.items()}
ValuesOf(d) == Dict([k \in DOMAIN d |-> d[k].value])

\* ScheduleVariables.globals
globals(d) == {k \in DOMAIN d : d[k].type = GLOBAL}

\* The right operand of ==: another ScheduleVariables ("store"), a plain
\* dict from names to values ("values"), or a plain dict from names to
\* {"value", "type"} dicts ("data", the shape of ScheduleVariables.data).
\* A value (a string) and a {"value", "type"} dict are never equal, so two
\* dicts of these different shapes are equal only when both are empty.
StoreOperand(d) == [kind |-> "store", map |-> d]
ValuesOperand(m) == [kind |-> "values", map |-> m]
DataOperand(d) == [kind |-> "data", map |-> d]

\* A variant of __eq__ that compares the data of two stores, tiers included.
eq_with_tiers(d, other) ==
    LET a == ValuesOf(d) IN
    IF other.kind = "store" THEN d = other.map
    ELSE IF other.kind = "values" THEN a = other.map
    ELSE (DOMAIN d = {} /\ DOMAIN other.map = {}) \/ d = other.map

\* ScheduleVariables.__eq__(other)
eq(d, other) ==
    LET a == ValuesOf(d) IN
    IF other.kind = "store" THEN a = ValuesOf(other.map)
    ELSE IF other.kind = "values"
         THEN \/ a = other.map
              \/ (DOMAIN d = {} /\ DOMAIN other.map = {})
         ELSE \/ (DOMAIN a = {} /\ DOMAIN other.map = {})
              \/ d = other.map

(***************************************************************************)
(* Specification of one ScheduleVariables store: the add_* calls with      *)
(* keyword arguments drawn from the names and values below, and            *)
(* comparisons with the three kinds of operand.                            *)
(***************************************************************************)
V2 == <<"v", "2">>
StoreNames == {V1, V2}
Dicts(names, values) == UNION {[D -> values] : D \in SUBSET names}
KwargsPool == Dicts(StoreNames, ValuePool) \ {EmptyDict}
DataPool == Dicts(StoreNames, [value : ValuePool, type : {DEFAULT, GLOBAL, KWARG}])

\* The history of the adds: a name added at a tier not below the highest
\* tier of its earlier adds is recorded with that tier and the new value.
Rank(tier) == CASE tier = DEFAULT -> 1 [] tier = GLOBAL -> 2 [] tier = KWARG -> 3
Added(ever, tier, kwargs) ==
    Dict([k \in DOMAIN ever \cup DOMAIN kwargs |->
            IF k \in DOMAIN kwargs /\ (k \in DOMAIN ever => Rank(tier) >= Rank(ever[k].type))
            THEN Entry(kwargs[k], tier) ELSE ever[k]])

StoreInit ==
    /\ MergeIdle /\ CompileIdle /\ AppIdle
    /\ self_data = EmptyDict
    /\ prev_data = EmptyDict
    /\ last_call = NoCall
    /\ ever_added = EmptyDict
    /\ eq_result = "none"

AddDefault ==
    \E kwargs \in KwargsPool :
        /\ self_data' = add_default(self_data, kwargs)
        /\ prev_data' = self_data
        /\ last_call' = [op |-> "add_default", kwargs |-> kwargs]
        /\ ever_added' = Added(ever_added, DEFAULT, kwargs)
        /\ eq_result' = "none"
        /\ UNCHANGED <<mergeVars, compileVars, appVars>>

AddGlobal ==
    \E kwargs \in KwargsPool :
        /\ self_data' = add_global(self_data, kwargs)
        /\ prev_data' = self_data
        /\ last_call' = [op |-> "add_global", kwargs |-> kwargs]
        /\ ever_added' = Added(ever_added, GLOBAL, kwargs)
        /\ eq_result' = "none"
        /\ UNCHANGED <<mergeVars, compileVars, appVars>>

AddKwarg ==
    \E kwargs \in KwargsPool :
        /\ self_data' = add_kwarg(self_data, kwargs)
        /\ prev_data' = self_data
        /\ last_call' = [op |-> "add_kwarg", kwargs |-> kwargs]
        /\ ever_added' = Added(ever_added, KWARG, kwargs)
        /\ eq_result' = "none"
        /\ UNCHANGED <<mergeVars, compileVars, appVars>>

Compare ==
    \E other \in {StoreOperand(d) : d \in DataPool} \cup
                  {ValuesOperand(m) : m \in Dicts(StoreNames, ValuePool)} \cup
                  {DataOperand(d) : d \in DataPool} :
        /\ eq_result' = eq(self_data, other)
        /\ last_call' = [op |-> "eq", kwargs |-> other]
        /\ UNCHANGED <<self_data, prev_data, ever_added, mergeVars, compileVars, appVars>>

StoreNext == AddDefault \/ AddGlobal \/ AddKwarg \/ Compare

SpecStore == StoreInit /\ [][StoreNext]_vars

\* The sequence of calls of the example, on one name and the values 1..5.
X == <<"x">>
Ex1 == add_default(EmptyDict, X :> 1)
Ex2 == add_global(Ex1, X :> 2)
Ex3 == add_default(Ex2, X :> 3)
Ex4 == add_kwarg(Ex3, X :> 4)
Ex5 == add_global(Ex4, X :> 5)

\* C5: after add_default an entry that was Global or Override is untouched
\* and any other named entry has the new value and tier Default; after
\* add_global an entry that was Override is untouched and any other named
\* entry has the new value and tier Global; after add_kwarg every named
\* entry has the new value and tier Override; entries not named in the call
\* are untouched.  The example: default 1, global 2 gives 2, default 3 keeps
\* 2, kwarg 4 gives 4, global 5 keeps 4.
C5_TierPrecedence ==
    /\ last_call.op \in {"add_default", "add_global", "add_kwarg"} =>
        /\ DOMAIN self_data = DOMAIN prev_data \cup DOMAIN last_call.kwargs
        /\ \A k \in DOMAIN self_data :
            LET was == IF k \in DOMAIN prev_data THEN prev_data[k].type ELSE "absent"
                new == last_call.kwargs
            IN  IF k \notin DOMAIN new THEN self_data[k] = prev_data[k]
                ELSE CASE last_call.op = "add_default" ->
                            IF was \in {GLOBAL, KWARG} THEN self_data[k] = prev_data[k]
                            ELSE self_data[k] = [value |-> new[k], type |-> DEFAULT]
                       [] last_call.op = "add_global" ->
                            IF was = KWARG THEN self_data[k] = prev_data[k]
                            ELSE self_data[k] = [value |-> new[k], type |-> GLOBAL]
                       [] last_call.op = "add_kwarg" ->
                            self_data[k] = [value |-> new[k], type |-> KWARG]
    /\ Ex2[X].value = 2 /\ Ex3[X].value = 2 /\ Ex4[X].value = 4 /\ Ex5[X].value = 4

C5_Witness ==
    /\ last_call.op = "add_global"
    /\ V1 \in DOMAIN last_call.kwargs /\ V2 \in DOMAIN last_call.kwargs
    /\ prev_data = (V1 :> Entry(last_call.kwargs[V1], KWARG)) @@ (V2 :> Entry(last_call.kwargs[V1], DEFAULT))
    /\ last_call.kwargs[V1] # last_call.kwargs[V2]
    /\ self_data[V1].type = KWARG /\ self_data[V2].type = GLOBAL

\* The name-to-value assignment an operand describes.
AssignmentOf(other) ==
    IF other.kind = "values" THEN other.map ELSE ValuesOf(other.map)

\* C6 (as stated): the store equals an operand (another store or a plain
\* mapping) exactly when both describe the same name-to-value assignment,
\* whatever tiers their entries carry.
C6_EqIgnoresTiers ==
    last_call.op = "eq" => eq_result = (ValuesOf(self_data) = AssignmentOf(last_call.kwargs))

\* C6 (amended): the store equals another store, or a plain mapping from
\* names to values, exactly when both have the same names and the same
\* values, whatever the tiers; it equals a plain mapping from names to
\* {value, type} entries exactly when the mapping equals the store's data,
\* tiers included.
C6_EqByOperandKind ==
    last_call.op = "eq" =>
        LET other == last_call.kwargs IN
        IF other.kind \in {"store", "values"}
        THEN eq_result =
                (/\ DOMAIN self_data = DOMAIN other.map
                 /\ \A k \in DOMAIN self_data :
                        self_data[k].value = (IF other.kind = "store" THEN other.map[k].value
                                         ELSE other.map[k]))
        ELSE eq_result =
                (/\ DOMAIN self_data = DOMAIN other.map
                 /\ \A k \in DOMAIN self_data :
                        /\ self_data[k].value = other.map[k].value
                        /\ self_data[k].type = other.map[k].type)

C6_Witness ==
    /\ last_call.op = "eq" /\ last_call.kwargs.kind = "store"
    /\ eq_result = TRUE
    /\ DOMAIN self_data = StoreNames
    /\ \A k \in StoreNames : self_data[k].type # last_call.kwargs.map[k].type

\* C28: after any sequence of add_default, add_global and add_kwarg on an
\* empty store, the tier of each name is the highest tier at which it was
\* ever added and its value is the value of the latest add at that tier;
\* the tier of a name never decreases and each name has one entry.
TierKept ==
    \A k \in DOMAIN self_data :
        /\ k \in DOMAIN self_data'
        /\ Rank(self_data'[k].type) >= Rank(self_data[k].type)
C28_HighestTierLatestValue ==
    /\ [](/\ DOMAIN self_data = DOMAIN ever_added
          /\ \A k \in DOMAIN self_data :
                self_data[k] = [value |-> ever_added[k].value, type |-> ever_added[k].type])
    /\ [][TierKept]_vars

\* An add at a lower tier with another value, after adds that took one name
\* to Override and the other to Global: both entries are kept.
C28_Witness ==
    /\ last_call.op = "add_default"
    /\ DOMAIN last_call.kwargs = {V1, V2}
    /\ self_data[V1].type = KWARG /\ self_data[V1].value # last_call.kwargs[V1]
    /\ self_data[V2].type = GLOBAL /\ self_data[V2].value # last_call.kwargs[V2]

\* An add at the tier a name has: the value is replaced.
C28_WitnessSameTier ==
    /\ last_call.op = "add_global" /\ V1 \in DOMAIN last_call.kwargs
    /\ V1 \in DOMAIN prev_data /\ prev_data[V1].type = GLOBAL
    /\ prev_data[V1].value # last_call.kwargs[V1]
    /\ self_data[V1] = Entry(last_call.kwargs[V1], GLOBAL)

(***************************************************************************)
(* The schedule registry (Schedules), built from the configuration files,  *)
(* the persisted global variables and a supplied store.  Every Python      *)
(* string (schedule name, zone name, variable name, value) is a sequence   *)
(* of characters.  No string of the model is empty, so <<>> stands for     *)
(* None, for the empty dict and for the empty list where they occur.       *)
(***************************************************************************)
NAME == <<"n", "a", "m", "e">>
V3 == <<"v", "3">>
T0600 == <<"0", "6", ":", "0", "0">>
T0700 == <<"0", "7", ":", "0", "0">>
T2230 == <<"2", "2", ":", "3", "0">>
T2330 == <<"2", "3", ":", "3", "0">>
Schedule3 == <<"S", "3">>
Schedule31 == <<"S", "3", ".", "1">>
Schedule9 == <<"S", "9">>

\* One configuration file: the [metadata] table, the [[variant]] tables and
\* the zone tables in document order.  Schedule "S3" declares v1 and v2,
\* its variant "S3.1" replaces the default of v1; v3 is declared nowhere.
ConfigFiles ==
    << [metadata |-> (NAME :> Schedule3) @@ (V1 :> T0700) @@ (V2 :> T2230),
        variant |-> << (NAME :> Schedule31) @@ (V1 :> T0600) >>,
        schedule |->
            << [zone |-> <<"b", "a", "t", "h", "r", "o", "o", "m">>,
                blocks |-> << [time |-> <<"{", "v", "1", "}">>, temperature |-> 210],
                              [time |-> <<"{", "v", "2", "}">>, temperature |-> 0] >>],
               [zone |-> <<"l", "i", "v", "i", "n", "g", "_", "r", "o", "o", "m">>,
                blocks |-> << [time |-> MIDNIGHT, temperature |-> 0],
                              [time |-> <<"{", "v", "1", "|", "+", "0", "1", ":", "0", "0", "}">>,
                               temperature |-> 210] >>] >>] >>

\* client.zones
zones ==
    << [id |-> 1, name |-> <<"B", "a", "t", "h", "r", "o", "o", "m">>],
       [id |-> 2, name |-> <<"L", "i", "v", "i", "n", "g", " ", "R", "o", "o", "m">>] >>
ZoneIds == {zones[i].id : i \in 1..Len(zones)}

\* settings.tado_default_schedule
tado_default_schedule == Schedule3

\* {**a, **b}
DictMerge(a, b) ==
    Dict([k \in DOMAIN a \cup DOMAIN b |-> IF k \in DOMAIN b THEN b[k] ELSE a[k]])

\* {k: v for k, v in d.items() if k in keys}
DictFilter(d, keys) == Dict([k \in DOMAIN d \cap keys |-> d[k]])

\* The store of one variant with the persisted globals and the kwargs of
\* every name added, declared by the variant or not.
variant_variables_any_name(variant_metadata, global_variables, variables, kwargs) ==
    LET AddDefaults(copied) ==
            add_default(copied,
                DictFilter(variant_metadata, DOMAIN variant_metadata \ DOMAIN copied))
        AddGlobals(with_defaults) ==
            add_global(with_defaults,
                DictFilter(global_variables,
                    {k \in DOMAIN global_variables : k \notin globals(with_defaults)}))
        AddKwargs(with_globals) == add_kwarg(with_globals, kwargs)
    IN  AddKwargs(AddGlobals(AddDefaults(variables)))

\* The store of one variant with every default and every persisted global
\* of a declared name added, whatever the supplied store holds.
variant_variables_unfiltered(variant_metadata, global_variables, variables, kwargs) ==
    add_kwarg(
        add_global(add_default(variables, variant_metadata),
                   DictFilter(global_variables, DOMAIN variant_metadata)),
        DictFilter(kwargs, DOMAIN variant_metadata))

\* The body of the loop over the variants in Schedules.__init__: the store
\* of one variant.  The supplied store is copied; an empty store and no
\* store are the same value.
variant_variables(variant_metadata, global_variables, variables, kwargs) ==
    LET AddDefaults(copied) ==
            add_default(copied,
                DictFilter(variant_metadata, DOMAIN variant_metadata \ DOMAIN copied))
        AddGlobals(with_defaults) ==
            IF DOMAIN global_variables # {}
            THEN add_global(with_defaults,
                    DictFilter(global_variables,
                        {k \in DOMAIN global_variables :
                            k \in DOMAIN variant_metadata /\ k \notin globals(with_defaults)}))
            ELSE with_defaults
        AddKwargs(with_globals) ==
            add_kwarg(with_globals, DictFilter(kwargs, DOMAIN variant_metadata))
    IN  AddKwargs(AddGlobals(AddDefaults(variables)))

\* The loop over the variants of one file: [metadata] itself is the first
\* variant.  A later variant of the same name replaces an earlier one.
RECURSIVE RegisterVariants(_, _, _, _, _, _, _)
RegisterVariants(schedules, file, variants, idx, global_variables, variables, kwargs) ==
    IF idx > Len(variants) THEN schedules
    ELSE LET merged_metadata == DictMerge(file.metadata, variants[idx])
             variant_name == merged_metadata[NAME]
             variant_metadata == DictFilter(merged_metadata, DOMAIN merged_metadata \ {NAME})
             entry == [schedule |-> file.schedule,
                       variables |-> variant_variables(variant_metadata, global_variables,
                                                       variables, kwargs)]
         IN  RegisterVariants(DictMerge(schedules, variant_name :> entry), file, variants,
                              idx + 1, global_variables, variables, kwargs)

\* The loop over the configuration files.
RECURSIVE RegisterFiles(_, _, _, _, _, _)
RegisterFiles(schedules, files, idx, global_variables, variables, kwargs) ==
    IF idx > Len(files) THEN schedules
    ELSE RegisterFiles(
            RegisterVariants(schedules, files[idx],
                             <<files[idx].metadata>> \o files[idx].variant, 1,
                             global_variables, variables, kwargs),
            files, idx + 1, global_variables, variables, kwargs)

\* Schedules(path, global_variables, variables, **kwargs).schedules, path
\* standing for the files path.glob("*.toml") finds.
Schedules(path, global_variables, variables, kwargs) ==
    RegisterFiles(EmptyDict, path, 1, global_variables, variables, kwargs)

\* self.schedules[name]["schedule"]: the zone tables of a schedule.
HasZone(zone_tables, zone) == \E i \in 1..Len(zone_tables) : zone_tables[i].zone = zone
ZoneBlocks(zone_tables, zone) ==
    zone_tables[CHOOSE i \in 1..Len(zone_tables) : zone_tables[i].zone = zone].blocks

\* The setting with the heating on at 0 degrees.
SettingOnAtZero(temperature) ==
    IF temperature >= 0
    THEN [type |-> "HEATING", power |-> "ON",
          temperature |-> [celsius_tenths |-> temperature,
                           fahrenheit_tenths |-> (temperature * 18 + 3200 + 5) \div 10]]
    ELSE [type |-> "HEATING", power |-> "OFF", temperature |-> None]

\* The setting of a wire block.  Temperatures are in tenths of a degree:
\* round(temperature, 1) is then the temperature itself, and
\* round(celsius * 9 / 5 + 32, 1) is the nearest tenth of a number of
\* hundredths whose last digit is even (never a tie).
Setting(temperature) ==
    IF temperature > 0
    THEN [type |-> "HEATING", power |-> "ON",
          temperature |-> [celsius_tenths |-> temperature,
                           fahrenheit_tenths |-> (temperature * 18 + 3200 + 5) \div 10]]
    ELSE [type |-> "HEATING", power |-> "OFF", temperature |-> None]

\* create_block(start, end, temperature) for a block that is not split.
WireBlock(start, end, temperature) ==
    [dayType |-> "MONDAY_TO_SUNDAY", start |-> Strftime(start), end |-> Strftime(end),
     geolocationOverride |-> FALSE, setting |-> Setting(temperature)]

\* create_block without the exemption of a block that starts or ends at
\* midnight.
create_block_any_wrap(start, end, temperature) ==
    IF temperature = RESET THEN Raise("TypeError")
    ELSE IF end < start
    THEN Ok(<<WireBlock(start, Minutes(MIDNIGHT), temperature),
              WireBlock(Minutes(MIDNIGHT), end, temperature)>>)
    ELSE Ok(WireBlock(start, end, temperature))

\* create_block(start, end, temperature): a block that includes midnight
\* gives a list of two blocks.  "reset" cannot be compared with 0.
create_block(start, end, temperature) ==
    IF temperature = RESET THEN Raise("TypeError")
    ELSE IF ~(start = Minutes(MIDNIGHT) \/ end = Minutes(MIDNIGHT)) /\ end < start
    THEN Ok(<<WireBlock(start, Minutes(MIDNIGHT), temperature),
              WireBlock(Minutes(MIDNIGHT), end, temperature)>>)
    ELSE Ok(WireBlock(start, end, temperature))

\* [create_block(*block) for block in timetable]
RECURSIVE TadoFormatFrom(_, _, _)
TadoFormatFrom(tt, idx, acc) ==
    LET Collect(block) ==
            IF ~Returned(block) THEN block
            ELSE TadoFormatFrom(tt, idx + 1, Append(acc, block.val))
    IN  IF idx > Len(tt) THEN Ok(acc)
        ELSE Collect(create_block(tt[idx][1], tt[idx][2], tt[idx][3]))

(***************************************************************************)
(* Specification of the conversion of a timetable to wire blocks, the last *)
(* step of load_zone: the timetable holds one interval, with a temperature *)
(* in tenths of a degree or "reset".                                       *)
(***************************************************************************)
WireTemps == {-50, 0, 1, 5, 185, 210, 215, 216, RESET}
WireTimes == {0, 420, 1350}

BlockInit ==
    /\ MergeIdle /\ StoreIdle /\ AppIdle
    /\ schedule = <<>> /\ metadata = <<>>
    /\ compiled \in {Ok(<<<<start, end, temperature>>>>) :
                        start \in WireTimes, end \in WireTimes, temperature \in WireTemps}
    /\ wire = NoResult
    /\ cpc = "timetable"

TadoFormat ==
    /\ cpc = "timetable"
    /\ wire' = TadoFormatFrom(compiled.val, 1, <<>>)
    /\ cpc' = "wire"
    /\ UNCHANGED <<schedule, metadata, compiled, mergeVars, storeVars, appVars>>

BlockNext == TadoFormat

SpecBlock == BlockInit /\ [][BlockNext]_vars

\* The wire blocks made of the interval: one block, or the two parts of an
\* interval that includes midnight.
Formatted == cpc = "wire" /\ compiled.val[1][3] # RESET
WireTemperature == compiled.val[1][3]
WireBlocks ==
    IF DOMAIN wire.val[1] = {1, 2} THEN {wire.val[1][1], wire.val[1][2]}
    ELSE {wire.val[1]}

\* C15: create_block renders the setting from the temperature alone:
\* temperature <= 0 gives power OFF with temperature null, temperature > 0
\* gives power ON with a celsius value and a fahrenheit value equal to
\* celsius * 9 / 5 + 32; dayType is MONDAY_TO_SUNDAY and geolocationOverride
\* false.  (Tenths of a degree: 10 * fahrenheit_tenths are hundredths.)
C15_SettingExact ==
    Formatted =>
        /\ Returned(wire)
        /\ \A b \in WireBlocks :
              /\ b.dayType = "MONDAY_TO_SUNDAY" /\ b.geolocationOverride = FALSE
              /\ IF WireTemperature <= 0
                 THEN b.setting.power = "OFF" /\ b.setting.temperature = None
                 ELSE /\ b.setting.power = "ON"
                      /\ b.setting.temperature.celsius_tenths = WireTemperature
                      /\ 10 * b.setting.temperature.fahrenheit_tenths =
                            18 * b.setting.temperature.celsius_tenths + 3200

\* C15 with the fahrenheit value rounded to one decimal: it is the tenth
\* nearest to celsius * 9 / 5 + 32.
C15_SettingRounded ==
    Formatted =>
        /\ Returned(wire)
        /\ \A b \in WireBlocks :
              /\ b.dayType = "MONDAY_TO_SUNDAY" /\ b.geolocationOverride = FALSE
              /\ IF WireTemperature <= 0
                 THEN b.setting.power = "OFF" /\ b.setting.temperature = None
                 ELSE /\ b.setting.power = "ON"
                      /\ b.setting.temperature.celsius_tenths = WireTemperature
                      /\ 10 * b.setting.temperature.fahrenheit_tenths
                            - (18 * b.setting.temperature.celsius_tenths + 3200) \in -4..4

\* 21.6 degrees: 70.88 is rendered 70.9.
C15_Witness ==
    /\ Formatted /\ WireTemperature = 216
    /\ \E b \in WireBlocks : b.setting.temperature.fahrenheit_tenths = 709

\* 21 degrees: 69.8; and a negative temperature: OFF.
C15_WitnessWhole ==
    /\ Formatted /\ WireTemperature = 210
    /\ \E b \in WireBlocks : b.setting.temperature.fahrenheit_tenths = 698
C15_WitnessOff ==
    /\ Formatted /\ WireTemperature = -50
    /\ \E b \in WireBlocks : b.setting.power = "OFF"

\* The target of a copy block: "schedule:zone", either part may be empty;
\* without ":" the text is a schedule name.  More than one ":" fails the
\* unpacking of the split.
CopyTarget(copy_schedule, name, zone) ==
    LET colons == {i \in 1..Len(copy_schedule) : copy_schedule[i] = ":"} IN
    IF colons = {} THEN
        Ok([name |-> IF copy_schedule = <<>> THEN name ELSE copy_schedule, zone |-> zone])
    ELSE IF Cardinality(colons) > 1 THEN Raise("ValueError: too many values to unpack")
    ELSE LET i == CHOOSE c \in colons : TRUE
             copy_schedule_name == SubSeq(copy_schedule, 1, i - 1)
             copy_schedule_zone == SubSeq(copy_schedule, i + 1, Len(copy_schedule))
         IN  Ok([name |-> IF copy_schedule_name = <<>> THEN name ELSE copy_schedule_name,
                 zone |-> IF copy_schedule_zone = <<>> THEN zone ELSE copy_schedule_zone])

\* Schedules.load_zone(name, zone, tado_format); depth counts the nested
\* calls made for copy blocks.
RECURSIVE load_zone(_, _, _, _, _)
load_zone(schedules, name, zone, tado_format, depth) ==
    IF depth > RecursionLimit THEN Raise("RecursionError")
    ELSE IF name \notin DOMAIN schedules \/ ~HasZone(schedules[name].schedule, zone)
    THEN Raise("KeyError")
    ELSE
    LET blocks == ZoneBlocks(schedules[name].schedule, zone)
        copies == {i \in 1..Len(blocks) : "copy" \in DOMAIN blocks[i]}
        LoadCopy(target) ==
            IF ~Returned(target) THEN target
            ELSE load_zone(schedules, target.val.name, target.val.zone, FALSE, depth + 1)
        Format(loaded) ==
            IF ~Returned(loaded) THEN loaded
            ELSE IF tado_format THEN TadoFormatFrom(loaded.val, 1, <<>>)
            ELSE loaded
        MergeOnto(base, own) ==
            IF ~Returned(base) THEN base
            ELSE IF ~Returned(own) THEN own
            ELSE Format(IF base.val # <<>>
                        THEN merge_timetables(base.val, own.val)
                        ELSE own)
    IN  MergeOnto(
            IF copies = {} THEN Ok(<<>>)
            ELSE LoadCopy(CopyTarget(
                    blocks[CHOOSE i \in copies : \A j \in copies : i <= j].copy, name, zone)),
            schedule_to_timetable(SelectSeq(blocks, LAMBDA block : "copy" \notin DOMAIN block),
                                  ValuesOf(schedules[name].variables)))

\* Schedules.load(name): the zones are loaded in document order.
RECURSIVE LoadFrom(_, _, _, _)
LoadFrom(schedules, name, idx, loaded) ==
    LET zone_tables == schedules[name].schedule
        zone_name == zone_tables[idx].zone
        Store(json) ==
            IF ~Returned(json) THEN json
            ELSE LoadFrom(schedules, name, idx + 1, DictMerge(loaded, zone_name :> json.val))
    IN  IF idx > Len(zone_tables) THEN Ok(loaded)
        ELSE Store(load_zone(schedules, name, zone_name, TRUE, 0))

load(schedules, name) == LoadFrom(schedules, name, 1, EmptyDict)

(***************************************************************************)
(* The Schedule object and the files of the data directory.  A call works  *)
(* on a record w of the files (variables_json, active_schedule_json), the  *)
(* fields of the Schedule object (current_schedule, current_variables,     *)
(* zone_json: the json of each ZoneSchedule), the PUT requests the device  *)
(* accepted during the call (puts), the files written during the call      *)
(* (writes) and the exception that ended the call (err).                   *)
(***************************************************************************)
NoFile == [exists |-> FALSE, schedule |-> None, variables |-> EmptyDict]
ActiveFile(schedule_name, variables) ==
    [exists |-> TRUE, schedule |-> schedule_name, variables |-> variables]

Failed(w, e) == [w EXCEPT !.err = e]

\* zone_name.lower().replace(" ", "_")
UpperChars == <<"A", "B", "C", "D", "E", "F", "G", "H", "I", "J", "K", "L", "M",
                "N", "O", "P", "Q", "R", "S", "T", "U", "V", "W", "X", "Y", "Z">>
Lower(c) ==
    IF \E i \in 1..Len(UpperChars) : UpperChars[i] = c
    THEN <<"a", "b", "c", "d", "e", "f", "g", "h", "i", "j", "k", "l", "m",
           "n", "o", "p", "q", "r", "s", "t", "u", "v", "w", "x", "y", "z">>[
            CHOOSE i \in 1..Len(UpperChars) : UpperChars[i] = c]
    ELSE c
ZoneKey(zone_name) ==
    Dict([i \in 1..Len(zone_name) |->
            IF Lower(zone_name[i]) = " " THEN "_" ELSE Lower(zone_name[i])])

\* Schedule(client): every zone starts with an empty json.
Schedule(w) ==
    [w EXCEPT !.current_schedule = EmptyDict,
              !.current_variables = EmptyDict,
              !.zone_json = [z \in ZoneIds |-> <<>>]]

\* Schedule.variables(client, update): the globals after the call; the
\* file is written when update is not empty.
variables_update(w, update) ==
    IF DOMAIN update # {}
    THEN [w EXCEPT !.variables_json = DictMerge(w.variables_json, update),
                   !.writes = w.writes \cup {"variables.json"}]
    ELSE w

\* Schedule.get without the check of kwargs given without a name.
get_in_any_kwargs(path, global_variables, name, variables, kwargs) ==
    LET One(loaded, schedule_variables) ==
            IF ~Returned(loaded) THEN loaded ELSE Ok(<<loaded.val, schedule_variables>>)
        All(schedules, loaded) ==
            IF \E n \in DOMAIN loaded : ~Returned(loaded[n])
            THEN loaded[CHOOSE n \in DOMAIN loaded : ~Returned(loaded[n])]
            ELSE Ok(Dict([n \in DOMAIN loaded |-> <<loaded[n].val, schedules[n].variables>>]))
        From(schedules) ==
            IF name # None
            THEN IF name \notin DOMAIN schedules THEN Raise("ValueError: No schedules found.")
                 ELSE One(load(schedules, name), schedules[name].variables)
            ELSE All(schedules, Dict([n \in DOMAIN schedules |-> load(schedules, n)]))
    IN  From(Schedules(path, global_variables, variables, kwargs))

\* Schedule.get(client, name, variables=variables, **kwargs) with load=True,
\* path standing for the files of client.data / "schedules".
get_in(path, global_variables, name, variables, kwargs) ==
    IF name = None /\ DOMAIN kwargs # {}
    THEN Raise("ValueError: Cannot pass kwargs to get when name not specified.")
    ELSE
    LET One(loaded, schedule_variables) ==
            IF ~Returned(loaded) THEN loaded ELSE Ok(<<loaded.val, schedule_variables>>)
        All(schedules, loaded) ==
            IF \E n \in DOMAIN loaded : ~Returned(loaded[n])
            THEN loaded[CHOOSE n \in DOMAIN loaded : ~Returned(loaded[n])]
            ELSE Ok(Dict([n \in DOMAIN loaded |-> <<loaded[n].val, schedules[n].variables>>]))
        From(schedules) ==
            IF name # None
            THEN IF name \notin DOMAIN schedules THEN Raise("ValueError: No schedules found.")
                 ELSE One(load(schedules, name), schedules[name].variables)
            ELSE All(schedules, Dict([n \in DOMAIN schedules |-> load(schedules, n)]))
    IN  From(Schedules(path, global_variables, variables, kwargs))

\* The same for the files of ConfigFiles.
get(global_variables, name, variables, kwargs) ==
    get_in(ConfigFiles, global_variables, name, variables, kwargs)

\* The loop of Schedule.set over the zones: ZoneSchedule.set(schedule) for
\* each zone in turn; a zone the schedule lacks ends the loop.
RECURSIVE SetZonesFrom(_, _, _)
SetZonesFrom(w, selected_schedule, idx) ==
    IF idx > Len(zones) THEN w
    ELSE LET zone_name == ZoneKey(zones[idx].name) IN
         IF zone_name \notin DOMAIN selected_schedule THEN Failed(w, "KeyError")
         ELSE SetZonesFrom([w EXCEPT !.zone_json[zones[idx].id] = selected_schedule[zone_name]],
                           selected_schedule, idx + 1)

\* Schedule.set with the refresh flag ignored: the whole record is kept.
set_keeping_record(w, name, refresh, kwargs) ==
    IF name = None /\ ~w.active_schedule_json.exists THEN Failed(w, "FileNotFoundError")
    ELSE
    LET active == w.active_schedule_json
        selected_name == IF name = None THEN active.schedule ELSE name
        kept == IF name # None THEN EmptyDict ELSE active.variables
        variables == add_kwarg(kept, kwargs)
        Assign(zoned, schedule_metadata) ==
            IF zoned.err # "none" THEN zoned
            ELSE [zoned EXCEPT !.current_schedule = selected_name,
                               !.current_variables = schedule_metadata]
        Select(got) ==
            IF ~Returned(got) THEN Failed(w, got.err)
            ELSE Assign(SetZonesFrom(w, got.val[1], 1), got.val[2])
    IN  Select(get(w.variables_json, selected_name, variables, EmptyDict))

\* Schedule.set(name, refresh=refresh, **kwargs) with the schedules directory
\* holding the files of path.
set_in(path, w, name, refresh, kwargs) ==
    IF name = None /\ ~w.active_schedule_json.exists THEN Failed(w, "FileNotFoundError")
    ELSE
    LET active == w.active_schedule_json
        selected_name == IF name = None THEN active.schedule ELSE name
        kept == IF name # None THEN EmptyDict
                ELSE IF refresh
                THEN DictFilter(active.variables,
                                {k \in DOMAIN active.variables : active.variables[k].type = KWARG})
                ELSE active.variables
        variables == add_kwarg(kept, kwargs)
        Assign(zoned, schedule_metadata) ==
            IF zoned.err # "none" THEN zoned
            ELSE [zoned EXCEPT !.current_schedule = selected_name,
                               !.current_variables = schedule_metadata]
        Select(got) ==
            IF ~Returned(got) THEN Failed(w, got.err)
            ELSE Assign(SetZonesFrom(w, got.val[1], 1), got.val[2])
    IN  Select(get_in(path, w.variables_json, selected_name, variables, EmptyDict))

\* The same for the files of ConfigFiles.
set(w, name, refresh, kwargs) == set_in(ConfigFiles, w, name, refresh, kwargs)

\* The loop of Schedule.push over the zones: the PUT of zone number fail_at
\* (0: none) is answered with an error status, which ends the call.
RECURSIVE PushZonesFrom(_, _, _)
PushZonesFrom(w, idx, fail_at) ==
    IF idx > Len(zones) THEN w
    ELSE IF idx = fail_at THEN Failed(w, "HTTPError")
    ELSE PushZonesFrom(
            [w EXCEPT !.puts = Append(w.puts, [zone |-> zones[idx].id,
                                               json |-> w.zone_json[zones[idx].id]])],
            idx + 1, fail_at)

\* Schedule.push with the record written before the zones are pushed.
push_record_first(w, fail_at) ==
    LET pushed == PushZonesFrom(w, 1, fail_at) IN
    [pushed EXCEPT
        !.active_schedule_json = ActiveFile(w.current_schedule, w.current_variables),
        !.writes = pushed.writes \cup {"active_schedule.json"}]

\* Schedule.push without the write of the active record.
push_without_record(w, fail_at) == PushZonesFrom(w, 1, fail_at)

\* Schedule.push()
push(w, fail_at) ==
    LET pushed == PushZonesFrom(w, 1, fail_at) IN
    IF pushed.err # "none" THEN pushed
    ELSE [pushed EXCEPT
            !.active_schedule_json = ActiveFile(w.current_schedule, w.current_variables),
            !.writes = pushed.writes \cup {"active_schedule.json"}]

\* A variant of is_active that does not compare the schedule names.
is_active_any_name(w) ==
    IF ~w.active_schedule_json.exists THEN Raise("FileNotFoundError")
    ELSE Ok(eq(w.active_schedule_json.variables, StoreOperand(w.current_variables)))

\* A variant of is_active that compares the variables with their tiers.
is_active_with_tiers(w) ==
    IF ~w.active_schedule_json.exists THEN Raise("FileNotFoundError")
    ELSE Ok(/\ w.active_schedule_json.schedule = w.current_schedule
            /\ w.active_schedule_json.variables = w.current_variables)

\* Schedule.is_active()
is_active(w) ==
    IF ~w.active_schedule_json.exists THEN Raise("FileNotFoundError")
    ELSE Ok(/\ w.active_schedule_json.schedule = w.current_schedule
            /\ eq(w.active_schedule_json.variables, StoreOperand(w.current_variables)))

\* POST /tado/schedule/reset, up to the push: Schedule(client) and set.
reset_set(w) == set(Schedule(w), tado_default_schedule, FALSE, EmptyDict)

\* POST /tado/schedule/set, up to the push: Schedule(client) and set.
set_schedule_set(w, name, variables) == set(Schedule(w), name, FALSE, variables)

\* The end of both handlers: schedule.push(), reached when set has not
\* raised.
then_push(selected, fail_at) ==
    IF selected.err # "none" THEN selected ELSE push(selected, fail_at)

\* POST /tado/schedule/variables, up to the test of is_active: the update
\* of the globals, Schedule(client) and set(refresh=True).
set_schedule_variables_set(w, variables) ==
    set(Schedule(variables_update(w, variables)), None, TRUE, EmptyDict)

\* The end of the handler: if not schedule.is_active(): schedule.push()
push_unless_active(selected, fail_at) ==
    LET active == is_active(selected) IN
    IF selected.err # "none" THEN selected
    ELSE IF ~Returned(active) THEN Failed(selected, active.err)
    ELSE IF ~active.val THEN push(selected, fail_at)
    ELSE selected

(***************************************************************************)
(* Inputs of the calls, and the two specifications of the Schedule: the    *)
(* methods called on one long-lived Schedule object (SpecSchedule), and    *)
(* the request handlers of the application, each of which constructs its   *)
(* own Schedule object (SpecApp).  Both start from an empty data           *)
(* directory.                                                              *)
(***************************************************************************)
NamePool == {None, Schedule3, Schedule31, Schedule9}
UpdatePool == {EmptyDict, V1 :> T0700, V1 :> T2330, V3 :> T0700}
ActivationPool == {EmptyDict, V1 :> T2330, V3 :> T0700}
FailPool == 0..Len(zones)

\* The files and the Schedule object at the start of a call.
World ==
    [variables_json |-> variables_json,
     active_schedule_json |-> active_schedule_json,
     current_schedule |-> current_schedule,
     current_variables |-> current_variables,
     zone_json |-> zone_json,
     puts |-> <<>>, writes |-> {}, err |-> "none"]

\* The files and the Schedule object at the end of the call made.
CommitCall(w, made, value) ==
    /\ variables_json' = w.variables_json
    /\ active_schedule_json' = w.active_schedule_json
    /\ current_schedule' = w.current_schedule
    /\ current_variables' = w.current_variables
    /\ zone_json' = w.zone_json
    /\ puts' = w.puts
    /\ writes' = w.writes
    /\ call' = made
    /\ returned' = value
    /\ active_before' = active_schedule_json
    /\ UNCHANGED <<mergeVars, compileVars, storeVars>>

\* The same for a call op of which only the name and the exception are kept.
Commit(w, op, value) == CommitCall(w, [op |-> op, err |-> w.err], value)

AppInit ==
    /\ MergeIdle /\ CompileIdle /\ StoreIdle
    /\ variables_json = EmptyDict
    /\ active_schedule_json = NoFile
    /\ current_schedule = EmptyDict
    /\ current_variables = EmptyDict
    /\ zone_json = [z \in ZoneIds |-> <<>>]
    /\ puts = <<>>
    /\ writes = {}
    /\ call = [op |-> "none", err |-> "none"]
    /\ returned = "none"
    /\ active_before = NoFile

NewSchedule == \E w \in {Schedule(World)} : Commit(w, "Schedule", "none")

VariablesUpdate ==
    \E update \in UpdatePool :
        \E w \in {variables_update(World, update)} : Commit(w, "variables", "none")

Set ==
    \E name \in NamePool, kwargs \in ActivationPool :
        \E refresh \in IF name = None THEN BOOLEAN ELSE {FALSE} :
            \E w \in {set(World, name, refresh, kwargs)} :
                CommitCall(w, [op |-> "set", err |-> w.err, name |-> name,
                               refresh |-> refresh, kwargs |-> kwargs], "none")

\* The application pushes only after a set (src/app/main.py), and so does
\* this specification.
Push ==
    /\ current_schedule # EmptyDict
    /\ \E fail_at \in FailPool :
            \E w \in {push(World, fail_at)} : Commit(w, "push", "none")

IsActive ==
    \E active \in {is_active(World)} :
        Commit(Failed(World, active.err), "is_active",
               IF Returned(active) THEN active.val ELSE "none")

ScheduleNext == NewSchedule \/ VariablesUpdate \/ Set \/ Push \/ IsActive

SpecSchedule == AppInit /\ [][ScheduleNext]_vars

Reset ==
    \E selected \in {reset_set(World)} :
        \E fail_at \in FailPool :
            \E w \in {then_push(selected, fail_at)} : Commit(w, "reset", "none")

SetSchedule ==
    \E name \in NamePool, variables \in ActivationPool :
        \E selected \in {set_schedule_set(World, name, variables)} :
            \E fail_at \in FailPool :
                \E w \in {then_push(selected, fail_at)} : Commit(w, "set_schedule", "none")

SetScheduleVariables ==
    \E variables \in UpdatePool :
        \E selected \in {set_schedule_variables_set(World, variables)} :
            \E fail_at \in FailPool :
                \E w \in {push_unless_active(selected, fail_at)} :
                    CommitCall(w, [op |-> "set_schedule_variables", err |-> w.err,
                                   variables |-> variables,
                                   again |-> /\ call.op = "set_schedule_variables"
                                             /\ call.err = "none"
                                             /\ call.variables = variables], "none")

AppNext == Reset \/ SetSchedule \/ SetScheduleVariables

SpecApp == AppInit /\ [][AppNext]_vars

(***************************************************************************)
(* Specification of Schedule.set over a schedules directory in which some  *)
(* schedules cannot be set: next to the file of S3 there is S5, which has   *)
(* no table for the zone Living Room, S6 with a malformed time and S7 with *)
(* a variable declared nowhere.  Set and push are called on one Schedule   *)
(* object; the arguments of set are kept in call.                          *)
(***************************************************************************)
PartialFiles ==
    ConfigFiles \o
    << [metadata |-> (NAME :> <<"S", "5">>), variant |-> <<>>,
        schedule |->
            << [zone |-> <<"b", "a", "t", "h", "r", "o", "o", "m">>,
                blocks |-> << [time |-> T0600, temperature |-> 180],
                              [time |-> T2230, temperature |-> 0] >>] >>],
       [metadata |-> (NAME :> <<"S", "6">>), variant |-> <<>>,
        schedule |->
            << [zone |-> <<"b", "a", "t", "h", "r", "o", "o", "m">>,
                blocks |-> << [time |-> T0600, temperature |-> 180],
                              [time |-> T2230, temperature |-> 0] >>],
               [zone |-> <<"l", "i", "v", "i", "n", "g", "_", "r", "o", "o", "m">>,
                blocks |-> << [time |-> <<"7", "a", "m">>, temperature |-> 180],
                              [time |-> T2230, temperature |-> 0] >>] >>],
       [metadata |-> (NAME :> <<"S", "7">>), variant |-> <<>>,
        schedule |->
            << [zone |-> <<"b", "a", "t", "h", "r", "o", "o", "m">>,
                blocks |-> << [time |-> T0600, temperature |-> 180],
                              [time |-> T2230, temperature |-> 0] >>],
               [zone |-> <<"l", "i", "v", "i", "n", "g", "_", "r", "o", "o", "m">>,
                blocks |-> << [time |-> <<"{", "v", "4", "}">>, temperature |-> 180],
                              [time |-> T2230, temperature |-> 0] >>] >>] >>

SetIn ==
    \E name \in {None, Schedule3, <<"S", "5">>, <<"S", "6">>, <<"S", "7">>, Schedule9},
       kwargs \in {EmptyDict, V1 :> T2330} :
        \E refresh \in IF name = None THEN BOOLEAN ELSE {FALSE} :
            \E w \in {set_in(PartialFiles, World, name, refresh, kwargs)} :
                CommitCall(w, [op |-> "set", err |-> w.err, name |-> name,
                               refresh |-> refresh, kwargs |-> kwargs], "none")

SpecSet == AppInit /\ [][SetIn \/ Push]_vars

\* C30: Schedule.set is all-or-nothing on the Schedule object: a set that
\* fails (unknown name, malformed time, unresolved variable, a schedule
\* without a table for a zone of the client) changes no pending timetable
\* of a zone, nor current_schedule, nor current_variables.
SetFailedStep == call'.op = "set" /\ call'.err # "none"
C30_SetAllOrNothing ==
    [][SetFailedStep =>
            /\ zone_json' = zone_json
            /\ current_schedule' = current_schedule
            /\ current_variables' = current_variables]_vars

\* What the code does give (C30): a set that fails leaves current_schedule
\* and current_variables as they were, and it changes a pending timetable
\* only when the schedule lacks a zone of the client: the zones before that
\* zone have the timetables of the schedule, that zone and the zones after
\* it are unchanged.
C30_FailedSetKeepsNameAndVariables ==
    [][SetFailedStep =>
            /\ current_schedule' = current_schedule
            /\ current_variables' = current_variables
            /\ zone_json' # zone_json =>
                    /\ call'.name = <<"S", "5">> /\ call'.err = "KeyError"
                    /\ zone_json'[zones[2].id] = zone_json[zones[2].id]]_vars

\* A set of S5 failed on a Schedule that had S3 set: Bathroom holds the
\* timetable of S5, Living Room and current_schedule are those of S3.
C30_PartlySet ==
    /\ call.op = "set" /\ call.err = "KeyError" /\ call.name = <<"S", "5">>
    /\ current_schedule = Schedule3
    /\ zone_json[zones[1].id] = load_zone(Schedules(PartialFiles, variables_json, EmptyDict, EmptyDict),
                                          <<"S", "5">>, ZoneKey(zones[1].name), TRUE, 0).val
    /\ zone_json[zones[2].id] = load_zone(Schedules(PartialFiles, variables_json, EmptyDict, EmptyDict),
                                          Schedule3, ZoneKey(zones[2].name), TRUE, 0).val

\* The push after it: the zones are sent timetables of two schedules and
\* the active record names S3.
C30_PushOfTwoSchedules ==
    /\ call.op = "push" /\ call.err = "none" /\ Len(puts) = 2
    /\ active_schedule_json.schedule = Schedule3
    /\ puts[1].json = load_zone(Schedules(PartialFiles, variables_json, EmptyDict, EmptyDict),
                                <<"S", "5">>, ZoneKey(zones[1].name), TRUE, 0).val
    /\ puts[2].json = load_zone(Schedules(PartialFiles, variables_json, EmptyDict, EmptyDict),
                                Schedule3, ZoneKey(zones[2].name), TRUE, 0).val

(***************************************************************************)
(* Specification of Schedule.get, a class method: calls with and without a *)
(* name, a supplied store and kwargs, between updates of the persisted     *)
(* globals, over the configured files and over a directory without files.  *)
(* The call and its arguments are kept in call, the value it returned in   *)
(* returned.                                                               *)
(***************************************************************************)
Get ==
    \E path \in {ConfigFiles, <<>>}, name \in NamePool,
       variables \in {EmptyDict, V1 :> Entry(T2330, DEFAULT), V1 :> Entry(T2330, GLOBAL),
                      V1 :> Entry(T2330, KWARG), V3 :> Entry(T0700, KWARG)},
       kwargs \in {EmptyDict, V1 :> T0600, V3 :> T0700} :
        \E got \in {get_in(path, variables_json, name, variables, kwargs)} :
            /\ call' = [op |-> "get", err |-> got.err, path |-> path, name |-> name,
                        variables |-> variables, kwargs |-> kwargs]
            /\ returned' = got.val
            /\ puts' = <<>>
            /\ writes' = {}
            /\ active_before' = active_schedule_json
            /\ UNCHANGED <<variables_json, active_schedule_json, current_schedule,
                           current_variables, zone_json>>
            /\ UNCHANGED <<mergeVars, compileVars, storeVars>>

GetNext == VariablesUpdate \/ Get

SpecGet == AppInit /\ [][GetNext]_vars

\* What the configuration declares for a variant: the metadata of the file
\* with the variant's own entries over them, without the name.
VariantsOf(file) == <<file.metadata>> \o file.variant
Declares(name) ==
    \E f \in 1..Len(ConfigFiles) : \E i \in 1..Len(VariantsOf(ConfigFiles[f])) :
        DictMerge(ConfigFiles[f].metadata, VariantsOf(ConfigFiles[f])[i])[NAME] = name
Declared(name) ==
    LET f == CHOOSE f \in 1..Len(ConfigFiles) :
                \E i \in 1..Len(VariantsOf(ConfigFiles[f])) :
                    DictMerge(ConfigFiles[f].metadata, VariantsOf(ConfigFiles[f])[i])[NAME] = name
        i == CHOOSE i \in 1..Len(VariantsOf(ConfigFiles[f])) :
                DictMerge(ConfigFiles[f].metadata, VariantsOf(ConfigFiles[f])[i])[NAME] = name
        all == DictMerge(ConfigFiles[f].metadata, VariantsOf(ConfigFiles[f])[i])
    IN  DictFilter(all, DOMAIN all \ {NAME})

\* The variable map Schedule.get returned for a variant.
GetReturned == call.op = "get" /\ call.err = "none"
ReturnedNames == IF call.name = None THEN DOMAIN returned ELSE {call.name}
ReturnedVariables(name) ==
    IF call.name = None THEN returned[name][2] ELSE returned[2]

\* The three steps applied in order to the supplied store.
InOrder(supplied, declared, persisted, kwargs) ==
    add_kwarg(
        add_global(add_default(supplied, declared),
                   DictFilter(persisted, DOMAIN declared)),
        DictFilter(kwargs, DOMAIN declared))

\* The three steps, the defaults given only for names the supplied store
\* lacks and the globals only for names it does not hold as globals.
WithDefaultsFor(supplied, declared) ==
    add_default(supplied, DictFilter(declared, DOMAIN declared \ DOMAIN supplied))
InOrderKeeping(supplied, declared, persisted, kwargs) ==
    add_kwarg(
        add_global(WithDefaultsFor(supplied, declared),
                   DictFilter(persisted,
                       {k \in DOMAIN declared :
                           k \notin globals(WithDefaultsFor(supplied, declared))})),
        DictFilter(kwargs, DOMAIN declared))

\* C16: for every variant the resolved store is the copy of the supplied
\* store, then add_default with the variant's metadata, then add_global with
\* the persisted globals of declared names, then add_kwarg with the kwargs
\* of declared names, each step following the tier-precedence rule.
C16_ResolvedInOrder ==
    GetReturned =>
        \A name \in ReturnedNames :
            ReturnedVariables(name) =
                InOrder(call.variables, Declared(name), variables_json, call.kwargs)

\* C16 as the code has it: a name the supplied store already holds gets no
\* default, and a name it holds as a global is not given the persisted
\* global.
C16_ResolvedKeepingSupplied ==
    GetReturned =>
        \A name \in ReturnedNames :
            /\ Declares(name)
            /\ ReturnedVariables(name) =
                  InOrderKeeping(call.variables, Declared(name), variables_json, call.kwargs)

\* The supplied store holds v1 as a global of 23:30, the persisted global
\* of v1 is 07:00: the variant keeps 23:30.
C16_Witness ==
    /\ GetReturned /\ call.name = Schedule31
    /\ call.variables = V1 :> Entry(T2330, GLOBAL)
    /\ V1 \in DOMAIN variables_json /\ variables_json[V1] = T0700
    /\ returned[2][V1] = Entry(T2330, GLOBAL)

\* Nothing supplied: default, global and kwarg in order.
C16_WitnessEmpty ==
    /\ GetReturned /\ call.name = Schedule3 /\ call.variables = EmptyDict
    /\ V1 \in DOMAIN variables_json /\ variables_json[V1] = T2330
    /\ call.kwargs = EmptyDict
    /\ returned[2] = (V1 :> Entry(T2330, GLOBAL)) @@ (V2 :> Entry(T2230, DEFAULT))


\* The last call was a Schedule.get with a name and no supplied store, and
\* it returned.
GotByName == GetReturned /\ call.name # None /\ call.variables = EmptyDict

\* C24: for Schedule.get with a schedule name, kwargs and no supplied store,
\* the resolved variable map of the variant has exactly the names the
\* variant's metadata declares (the metadata of the file with the variant's
\* own entries over them, without the name): persisted globals and kwargs
\* for other names never appear, and the variant's own entry replaces the
\* inherited default of the same name.
C24_ExactlyDeclared ==
    GotByName =>
        /\ DOMAIN returned[2] = DOMAIN Declared(call.name)
        /\ \A k \in DOMAIN returned[2] :
                (k \notin DOMAIN variables_json /\ k \notin DOMAIN call.kwargs) =>
                    returned[2][k] = Entry(Declared(call.name)[k], DEFAULT)

\* The variant S3.1 with a persisted global and a kwarg for v3, which it
\* does not declare: v3 is not in the map, and v1 has the variant's own
\* default 06:00 in place of 07:00.
C24_Witness ==
    /\ GotByName /\ call.name = Schedule31
    /\ V3 \in DOMAIN variables_json
    /\ call.kwargs = V3 :> T0700
    /\ returned[2] = (V1 :> Entry(T0600, DEFAULT)) @@ (V2 :> Entry(T2230, DEFAULT))


\* The last call was Schedule.get without a name (and so without kwargs).
GotAll == call.op = "get" /\ call.name = None /\ call.kwargs = EmptyDict

\* The names of the variants the files of path define.
VariantNames(path) ==
    UNION {{DictMerge(path[f].metadata, VariantsOf(path[f])[i])[NAME] :
                i \in 1..Len(VariantsOf(path[f]))} : f \in 1..Len(path)}

\* The mapping returned has every variant name, each with the result of the
\* get for that name.
AllReturned ==
    /\ call.err = "none"
    /\ DOMAIN returned = VariantNames(call.path)
    /\ \A name \in VariantNames(call.path) :
            Ok(returned[name]) = get_in(call.path, variables_json, name, call.variables,
                                        EmptyDict)

\* C20: Schedule.get called without a name returns the mapping of every
\* variant name to its result, and when no schedule variant is defined in the
\* configuration it fails with the no-schedules-found error instead of
\* returning an empty mapping.
C20_AllOrNoSchedulesFound ==
    GotAll =>
        IF VariantNames(call.path) = {}
        THEN call.err = "ValueError: No schedules found."
        ELSE AllReturned

\* The first half alone: whatever the configuration defines is returned.
C20_AllReturned == GotAll => AllReturned

\* A get without a name over a directory without files returned the empty
\* mapping.
C20_EmptyReturned ==
    /\ GotAll /\ call.path = <<>>
    /\ call.err = "none"
    /\ returned = EmptyDict

\* A get with a name over a directory without files failed.
C20_NamedNotFound ==
    /\ call.op = "get" /\ call.path = <<>> /\ call.name = Schedule3
    /\ call.err = "ValueError: No schedules found."

\* A get without a name returned both variants of the configured file.
C20_WitnessAll ==
    /\ GotAll /\ call.path = ConfigFiles
    /\ call.err = "none"
    /\ DOMAIN returned = {Schedule3, Schedule31}


\* The last call was a Schedule.get that raised e and returned nothing.
GetRaised(e) == call.op = "get" /\ call.err = e /\ returned = None

\* C21: Schedule.get rejects kwargs given without a schedule name with the
\* error for kwargs without a name, and a name that matches no variant with
\* the error for a schedule that is not found; in both cases no result is
\* returned.
C21_GetRejects ==
    call.op = "get" =>
        /\ (call.name = None /\ call.kwargs # EmptyDict) =>
                GetRaised("ValueError: Cannot pass kwargs to get when name not specified.")
        /\ (call.name # None /\ call.name \notin VariantNames(call.path)) =>
                GetRaised("ValueError: No schedules found.")

\* A get with kwargs and no name over the configured files was rejected.
C21_Witness ==
    /\ GetRaised("ValueError: Cannot pass kwargs to get when name not specified.")
    /\ call.path = ConfigFiles /\ call.name = None /\ call.kwargs = V1 :> T0600

\* A get for a name that no variant of the configured files has was rejected.
C21_WitnessNotFound ==
    /\ GetRaised("ValueError: No schedules found.")
    /\ call.path = ConfigFiles /\ call.name = Schedule9 /\ call.kwargs = V1 :> T0600


(***************************************************************************)
(* Specification of Schedules.load_zone over configurations with copy      *)
(* blocks: one file whose schedule S3 has the zones a, b and c; each zone  *)
(* has an optional copy block followed by blocks of its own.  The copy     *)
(* blocks name a zone of the same schedule in the forms ":zone",           *)
(* "schedule:zone" and "schedule", and reach from no copy at all to a zone *)
(* that copies itself, chains and cycles.  No globals are persisted.  The  *)
(* call and its arguments are kept in call, the value it returned in       *)
(* returned; one call is made on the registry of a configuration.          *)
(***************************************************************************)
ZoneTable(zone, copy, own) ==
    [zone |-> zone, blocks |-> (IF copy = None THEN <<>> ELSE <<[copy |-> copy]>>) \o own]

OwnBlocks ==
    {<<>>,
     <<[time |-> <<"{", "v", "1", "}">>, temperature |-> 210]>>,
     <<[time |-> T0700, temperature |-> 210],
       [time |-> <<"{", "v", "2", "}">>, temperature |-> 0]>>,
     <<[time |-> MIDNIGHT, temperature |-> 180],
       [time |-> <<"{", "v", "1", "|", "+", "0", "1", ":", "0", "0", "}">>,
        temperature |-> 210]>>,
     <<[time |-> T0700, temperature |-> 210],
       [time |-> <<"{", "v", "1", "}">>, temperature |-> 0]>>,
     <<[time |-> T0600, temperature |-> RESET],
       [time |-> T2230, temperature |-> 150]>>}

CopyConfigs ==
    {<< [metadata |-> (NAME :> Schedule3) @@ (V1 :> T0700) @@ (V2 :> T2230),
         variant |-> <<>>,
         schedule |-> << ZoneTable(<<"a">>, copy_a, own_a),
                         ZoneTable(<<"b">>, copy_b, own_b),
                         ZoneTable(<<"c">>, copy_c, own_c) >>] >> :
        copy_a \in {None, <<":", "a">>, <<":", "b">>, Schedule3 \o <<":", "b">>, Schedule3},
        own_a \in OwnBlocks,
        copy_b \in {None, <<":", "c">>, <<":", "a">>},
        own_b \in OwnBlocks \ {<<>>},
        copy_c \in {None, <<":", "a">>},
        own_c \in {own \in OwnBlocks : Len(own) = 2}}

LoadZone ==
    /\ call.op = "none"
    /\ \E path \in CopyConfigs, zone \in {<<"a">>, <<"b">>, <<"c">>}, tado_format \in BOOLEAN :
            \E loaded \in {load_zone(Schedules(path, variables_json, EmptyDict, EmptyDict),
                                     Schedule3, zone, tado_format, 0)} :
                /\ call' = [op |-> "load_zone", err |-> loaded.err, path |-> path,
                            name |-> Schedule3, zone |-> zone, tado_format |-> tado_format]
                /\ returned' = loaded.val
                /\ puts' = <<>>
                /\ writes' = {}
                /\ active_before' = active_schedule_json
                /\ UNCHANGED <<variables_json, active_schedule_json, current_schedule,
                               current_variables, zone_json>>
                /\ UNCHANGED <<mergeVars, compileVars, storeVars>>

LoadNext == LoadZone

SpecLoad == AppInit /\ [][LoadNext]_vars


\* The last call was Schedules.load_zone; its registry, the blocks of a zone
\* of the schedule, the zone's first copy block and the blocks of its own.
LoadZoneCalled == call.op = "load_zone"
CalledRegistry == Schedules(call.path, variables_json, EmptyDict, EmptyDict)
BlocksOf(zone) == ZoneBlocks(CalledRegistry[call.name].schedule, zone)
IsCopy(block) == "copy" \in DOMAIN block
HasCopy(zone) == \E i \in 1..Len(BlocksOf(zone)) : IsCopy(BlocksOf(zone)[i])
FirstCopy(zone) ==
    BlocksOf(zone)[CHOOSE i \in 1..Len(BlocksOf(zone)) :
                        /\ IsCopy(BlocksOf(zone)[i])
                        /\ \A j \in 1..(i - 1) : ~IsCopy(BlocksOf(zone)[j])].copy
CopiedZone(zone) == CopyTarget(FirstCopy(zone), call.name, zone).val.zone
OwnTimetable(zone) ==
    schedule_to_timetable(SelectSeq(BlocksOf(zone), LAMBDA block : ~IsCopy(block)),
                          ValuesOf(CalledRegistry[call.name].variables))

\* The result of a resolution of one level: the blocks of the zone merged
\* onto the blocks of the copied zone, whose own copy block is not followed.
OneLevel(zone) ==
    LET Wire(loaded) ==
            IF Returned(loaded) /\ call.tado_format
            THEN TadoFormatFrom(loaded.val, 1, <<>>) ELSE loaded
        Onto(base, own) ==
            IF ~Returned(base) THEN base
            ELSE IF ~Returned(own) THEN own
            ELSE Wire(IF base.val # <<>> THEN merge_timetables(base.val, own.val) ELSE own)
    IN  Onto(IF HasCopy(zone) THEN OwnTimetable(CopiedZone(zone)) ELSE Ok(<<>>),
             OwnTimetable(zone))
LoadedAsOneLevel ==
    /\ call.err = OneLevel(call.zone).err
    /\ returned = OneLevel(call.zone).val

\* C22: copy resolution is one level only: the zone a copy block names is
\* compiled without following a copy block of its own, so load_zone
\* terminates for every configuration, a zone that copies itself and zones
\* whose copy blocks form a cycle included.
C22_CopyOneLevel ==
    LoadZoneCalled => (call.err # "RecursionError" /\ LoadedAsOneLevel)

\* What holds: the resolution is that of one level when the copied zone has
\* no copy block of its own.
C22_OneLevelWithoutNestedCopy ==
    (LoadZoneCalled /\ (HasCopy(call.zone) => ~HasCopy(CopiedZone(call.zone))))
        => (call.err # "RecursionError" /\ LoadedAsOneLevel)

\* A zone that copies itself: the call ends in RecursionError.
C22_SelfCopyRecursionError ==
    /\ LoadZoneCalled /\ call.zone = <<"a">>
    /\ HasCopy(<<"a">>) /\ CopiedZone(<<"a">>) = <<"a">>
    /\ call.err = "RecursionError"

\* A chain a -> b -> c without a cycle: the call returns, and what it returns
\* is not the resolution of one level.
C22_ChainFollowed ==
    /\ LoadZoneCalled /\ call.zone = <<"a">> /\ call.err = "none"
    /\ HasCopy(<<"a">>) /\ CopiedZone(<<"a">>) = <<"b">>
    /\ HasCopy(<<"b">>) /\ CopiedZone(<<"b">>) = <<"c">>
    /\ ~HasCopy(<<"c">>)
    /\ ~LoadedAsOneLevel


\* The blocks of its own that a zone declares resolve to at least two
\* distinct times.
OwnOf(zone) == SelectSeq(BlocksOf(zone), LAMBDA block : ~IsCopy(block))
TwoDistinctTimes(zone) ==
    LET kwargs == ValuesOf(CalledRegistry[call.name].variables) IN
    /\ Resolvable(OwnOf(zone), kwargs)
    /\ \E i, j \in 1..Len(OwnOf(zone)) :
            ResolvedTimes(OwnOf(zone), kwargs)[i] # ResolvedTimes(OwnOf(zone), kwargs)[j]
LoadedWire ==
    /\ LoadZoneCalled /\ call.tado_format /\ call.err = "none"
    /\ TwoDistinctTimes(call.zone)
    /\ HasCopy(call.zone) => TwoDistinctTimes(CopiedZone(call.zone))
FlatDay(blocks) ==
    /\ blocks # <<>>
    /\ \A i \in 1..Len(blocks) : DOMAIN blocks[i] = DOMAIN WireBlock(0, 0, 0)
    /\ \A i \in 1..(Len(blocks) - 1) : Minutes(blocks[i].start) < Minutes(blocks[i + 1].start)
    /\ blocks[1].start = MIDNIGHT
    /\ blocks[Len(blocks)].end = MIDNIGHT
    /\ \A i \in 1..Len(blocks) :
            blocks[i].end = MIDNIGHT \/ Minutes(blocks[i].start) <= Minutes(blocks[i].end)

\* C26: every zone timetable that load returns in wire format, for a zone
\* compiled directly or through a copy block plus blocks of its own, is a
\* flat list of wire blocks ordered by start, whose first block starts at
\* 00:00 and whose last block ends at 00:00, no block crossing midnight,
\* when the blocks of the zone and the blocks of the copied zone each resolve
\* to at least two distinct times.
C26_WireFlatDay == LoadedWire => FlatDay(returned)

\* A zone with a copy block and blocks of its own, loaded in wire format as
\* three blocks or more.
C26_Witness ==
    /\ LoadedWire /\ HasCopy(call.zone) /\ Len(returned) >= 3
    /\ FlatDay(returned)

\* A zone without a copy block, loaded in wire format.
C26_WitnessDirect ==
    /\ LoadedWire /\ ~HasCopy(call.zone)
    /\ FlatDay(returned)

\* Two variable maps with the same names and the same value for each name.
SameNamesAndValues(a, b) ==
    /\ DOMAIN a = DOMAIN b
    /\ \A k \in DOMAIN a : a[k].value = b[k].value

\* The Schedule object of the state with one thing changed.
WithValue(k, v) == [World EXCEPT !.current_variables[k].value = v]
WithoutName(k) ==
    [World EXCEPT !.current_variables = DictFilter(current_variables,
                                                    DOMAIN current_variables \ {k})]
WithName(k, v) ==
    [World EXCEPT !.current_variables = DictMerge(current_variables, k :> Entry(v, DEFAULT))]
WithSchedule(n) == [World EXCEPT !.current_schedule = n]

\* C7: is_active() returns true exactly when the persisted name equals
\* current_schedule and the persisted variables have the same names and the
\* same values as current_variables, whatever the tiers; and when it returns
\* true, it returns false for the same object with any single value changed,
\* any name removed, any name added, or another schedule name.
C7_IsActiveIffNameAndValues ==
    (call.op = "is_active" /\ call.err = "none") =>
        /\ returned =
            (/\ active_schedule_json.schedule = current_schedule
             /\ SameNamesAndValues(active_schedule_json.variables, current_variables))
        /\ returned = TRUE =>
            /\ \A k \in DOMAIN current_variables :
                /\ \A v \in ValuePool \cup {T0600, T2230} :
                        v # current_variables[k].value => ~is_active(WithValue(k, v)).val
                /\ ~is_active(WithoutName(k)).val
            /\ \A k \in {V1, V2, V3} \ DOMAIN current_variables :
                    \A v \in ValuePool : ~is_active(WithName(k, v)).val
            /\ \A n \in {Schedule3, Schedule31, Schedule9} \ {current_schedule} :
                    ~is_active(WithSchedule(n)).val

C7_Witness ==
    /\ call.op = "is_active" /\ call.err = "none"
    /\ returned = TRUE
    /\ V3 \in DOMAIN current_variables
    /\ \E k \in DOMAIN current_variables :
            active_schedule_json.variables[k].type # current_variables[k].type

\* is_active() returns false for equal variables under another name.
C7_WitnessOtherName ==
    /\ call.op = "is_active" /\ call.err = "none"
    /\ returned = FALSE
    /\ active_schedule_json.schedule # current_schedule
    /\ SameNamesAndValues(active_schedule_json.variables, current_variables)

\* The zones pushed by the last call, in order, each with its pending json.
EveryZonePushed ==
    /\ Len(puts) = Len(zones)
    /\ \A i \in 1..Len(zones) :
            puts[i] = [zone |-> zones[i].id, json |-> zone_json[zones[i].id]]

\* The re-resolved schedule differs from the record persisted before the call.
Differs ==
    ~(/\ active_before.schedule = current_schedule
      /\ SameNamesAndValues(active_before.variables, current_variables))

\* C8: a set-schedule-variables operation writes to the device only if the
\* re-resolved schedule name or variable values differ from the record
\* persisted before it; an operation that ends without error has, when they
\* differ, pushed every zone and overwritten the record with the re-resolved
\* name and variables, and when they are value-equal pushed no zone and left
\* the record unwritten.
C8_PushIffNotActive ==
    call.op = "set_schedule_variables" =>
        /\ puts # <<>> => Differs
        /\ "active_schedule.json" \in writes => Differs
        /\ call.err = "none" =>
            IF Differs
            THEN /\ EveryZonePushed
                 /\ "active_schedule.json" \in writes
                 /\ active_schedule_json = ActiveFile(current_schedule, current_variables)
            ELSE /\ puts = <<>>
                 /\ "active_schedule.json" \notin writes
                 /\ active_schedule_json = active_before

C8_Witness ==
    /\ call.op = "set_schedule_variables" /\ call.err = "none"
    /\ "variables.json" \in writes
    /\ ~Differs
    /\ \E k \in DOMAIN current_variables :
            active_before.variables[k].type # current_variables[k].type
    /\ puts = <<>>

C8_WitnessPushed ==
    /\ call.op = "set_schedule_variables" /\ call.err = "none"
    /\ Differs /\ EveryZonePushed
    /\ \E k \in DOMAIN current_variables : current_variables[k].type = KWARG

\* The refresh of the set-schedule-variables handler has selected a
\* schedule: the call ended normally or in the push that follows the set.
Refreshed == call.op = "set_schedule_variables" /\ call.err \in {"none", "HTTPError"}
RetainedNames ==
    {k \in DOMAIN active_before.variables : active_before.variables[k].type = KWARG}

\* C17: set(refresh=True) without a name re-resolves the schedule of the
\* active record and retains from the record exactly the kwarg-tier
\* variables, with value and tier; every other variable is recomputed from
\* the variant's metadata and the current persisted globals, and a persisted
\* global never replaces a retained value.
C17_RefreshKeepsKwargsOnly ==
    Refreshed =>
        /\ current_schedule = active_before.schedule
        /\ DOMAIN current_variables = RetainedNames \cup DOMAIN Declared(current_schedule)
        /\ \A k \in RetainedNames : current_variables[k] = active_before.variables[k]
        /\ \A k \in DOMAIN current_variables \ RetainedNames :
              current_variables[k] =
                  IF k \in DOMAIN variables_json
                  THEN Entry(variables_json[k], GLOBAL)
                  ELSE Entry(Declared(current_schedule)[k], DEFAULT)

\* The record held v1 as a global of 07:00; the persisted global is now
\* 23:30 and the refreshed schedule has it.
C17_Witness ==
    /\ Refreshed
    /\ V1 \in DOMAIN active_before.variables
    /\ active_before.variables[V1] = Entry(T0700, GLOBAL)
    /\ current_variables[V1] = Entry(T2330, GLOBAL)

\* The record held v1 as a kwarg; the persisted global of v1 does not
\* replace it.
C17_WitnessRetained ==
    /\ Refreshed
    /\ V1 \in RetainedNames /\ V1 \in DOMAIN variables_json
    /\ variables_json[V1] # active_before.variables[V1].value
    /\ current_variables[V1] = active_before.variables[V1]

\* C29: repeated activation is idempotent: when set_schedule_variables has
\* returned and is run again with the same update (call.again), the second
\* run returns, sends no timetable to a zone and does not write the active
\* record; and a Schedule is active immediately after a set followed by a
\* push that both returned.
SetVariablesAgain == call.op = "set_schedule_variables" /\ call.again
C29_RepeatedActivationIdempotent ==
    /\ SetVariablesAgain =>
            /\ call.err = "none"
            /\ puts = <<>>
            /\ "active_schedule.json" \notin writes
            /\ active_schedule_json = active_before
    /\ (call.op \in {"reset", "set_schedule"} /\ call.err = "none")
            => is_active(World) = Ok(TRUE)

\* The second of two runs with an update that changed a variable the active
\* schedule uses: the first run pushed and wrote the record, the second
\* finds the schedule active.
C29_Witness ==
    /\ SetVariablesAgain
    /\ call.variables # EmptyDict
    /\ \E k \in DOMAIN call.variables :
            /\ k \in DOMAIN current_variables
            /\ current_variables[k] = Entry(call.variables[k], GLOBAL)
    /\ active_schedule_json.variables = current_variables
    /\ puts = <<>>

\* A set followed by a push, both returned, with an override.
C29_WitnessSetPush ==
    /\ call.op = "set_schedule" /\ call.err = "none"
    /\ Len(puts) = Len(zones)
    /\ \E k \in DOMAIN current_variables : current_variables[k].type = KWARG
    /\ is_active(World) = Ok(TRUE)

\* The PUT requests the device accepted during the call, in zone order.
PushedZones == {puts[i].zone : i \in 1..Len(puts)}
RecordWritten == "active_schedule.json" \in writes

C18_WitnessWritten ==
    /\ call.op = "push" /\ call.err = "none"
    /\ active_before.exists /\ active_schedule_json # active_before
    /\ \E k \in DOMAIN current_variables : current_variables[k].type = GLOBAL
    /\ active_schedule_json.variables = current_variables


\* The last call was Schedule.set(name, **kwargs) with a name, and it returned.
SetByName == call.op = "set" /\ call.name # None /\ call.err = "none"

\* What Schedule.get(name=name, **kwargs) returns for the arguments of the
\* last set.
GetOfSet == get(variables_json, call.name, EmptyDict, call.kwargs)

\* The object is as the pair got of Schedule.get tells: the name, the
\* variable map (names, values and tiers) and the timetable of every zone.
SetAs(got) ==
    /\ Returned(got)
    /\ current_schedule = call.name
    /\ current_variables = got.val[2]
    /\ \A i \in 1..Len(zones) :
            /\ ZoneKey(zones[i].name) \in DOMAIN got.val[1]
            /\ zone_json[zones[i].id] = got.val[1][ZoneKey(zones[i].name)]

\* C19: Schedule.set(name, **kwargs) ends with current_schedule = name,
\* current_variables equal (names, values and tiers) to the variable map
\* returned by Schedule.get(name=name, **kwargs), and every zone handed the
\* compiled timetable returned by that same get.
C19_SetAsGet == SetByName => SetAs(GetOfSet)

\* The same for the activation kwargs that name variables the schedule
\* declares.
C19_SetAsGetDeclared ==
    (SetByName /\ DOMAIN call.kwargs \subseteq DOMAIN Declared(call.name)) => SetAs(GetOfSet)

\* The name and the timetables are those of the get for every kwargs.
C19_NameAndZonesAsGet ==
    SetByName =>
        /\ Returned(GetOfSet)
        /\ current_schedule = call.name
        /\ \A i \in 1..Len(zones) :
                zone_json[zones[i].id] = GetOfSet.val[1][ZoneKey(zones[i].name)]

\* A set with a kwarg for a name the schedule does not declare: the kwarg is
\* in current_variables and not in the variable map of the get.
C19_UndeclaredKept ==
    /\ SetByName /\ call.name = Schedule3 /\ call.kwargs = V3 :> T0700
    /\ V3 \in DOMAIN current_variables
    /\ current_variables[V3] = Entry(T0700, KWARG)
    /\ Returned(GetOfSet)
    /\ V3 \notin DOMAIN GetOfSet.val[2]

\* A set with a kwarg for a declared name, over persisted globals.
C19_WitnessDeclared ==
    /\ SetByName /\ call.name = Schedule31 /\ call.kwargs = V1 :> T2330
    /\ variables_json # EmptyDict
    /\ current_variables[V1] = Entry(T2330, KWARG)

(***************************************************************************)
(* Specification of the merge: the arguments are drawn from the rings,     *)
(* Merge calls merge_timetables on them, ReMerge calls it again on the     *)
(* result with an empty override.                                          *)
(***************************************************************************)
MergeInit ==
    /\ CompileIdle /\ StoreIdle /\ AppIdle
    /\ base_timetable \in Rings({1, 2})
    /\ timetable \in Rings({1, 2, RESET}) \cup {<<>>}
    /\ merged = NoResult
    /\ remerged = NoResult
    /\ mpc = "input"

Merge ==
    /\ mpc = "input"
    /\ merged' = merge_timetables(base_timetable, timetable)
    /\ mpc' = "merged"
    /\ UNCHANGED <<base_timetable, timetable, remerged, compileVars, storeVars, appVars>>

ReMerge ==
    /\ mpc = "merged"
    /\ Returned(merged)
    /\ remerged' = merge_timetables(merged.val, <<>>)
    /\ mpc' = "remerged"
    /\ UNCHANGED <<base_timetable, timetable, merged, compileVars, storeVars, appVars>>

MergeNext == Merge \/ ReMerge

SpecMerge == MergeInit /\ [][MergeNext]_vars

=============================================================================
